---- MODULE Spec2Model ----
(***************************************************************************)
(* A model of the playlist ingestion engine of spottle:                    *)
(*   src/services/playlistService.ts  (text parsing, Spotify fetch)        *)
(*   src/services/musicKitService.ts  (cached MusicKit instance)           *)
(* Strings are sequences of one-character strings, so that the regular     *)
(* expressions of the source are computed character by character.          *)
(***************************************************************************)
EXTENDS Integers, Sequences, FiniteSets, TLC

VARIABLES
  \* pure-function harness: the argument, the results, the position
  input, output, output2, phase,
  \* fetchSpotifyPlaylist: locals of the call and the observable traffic
  fpc, nextUrl, items, name, requests, inflight, pageNexts, pageItems,
  lastOutcome, fresult, tokenRequests,
  \* initializeMusicKit: the module-level cache and the concurrent callers
  musicKitInstance, mkpc, mkResult, mkFetch, tokenFetches, scriptLoaded,
  attempts, calls,
  \* App: the React state and the locals of the running startMigration
  appState, manifest, error, transferProgress, direction, spotifyToken,
  isAppleAuthorized, pending, data, spc, updatedTracks, trackIds, loop_i,
  loopTrack,
  \* addTracksToSpotifyPlaylist: the argument, the locals and the traffic
  addpc, uris, chunks, chunk_i, posted, postStatuses

pureVars  == <<input, output, output2, phase>>
fetchVars == <<fpc, nextUrl, items, name, requests, inflight, pageNexts,
               pageItems, lastOutcome, fresult, tokenRequests>>
mkVars    == <<musicKitInstance, mkpc, mkResult, mkFetch, tokenFetches,
               scriptLoaded, attempts, calls>>
addVars   == <<addpc, uris, chunks, chunk_i, posted, postStatuses>>
uiVars    == <<appState, manifest, error, transferProgress, direction,
               spotifyToken, isAppleAuthorized, pending, data, spc,
               updatedTracks,
               trackIds, loop_i, loopTrack>>
appVars   == <<uiVars, addVars>>
vars      == <<pureVars, fetchVars, mkVars, appVars>>

NULL == "null"
\* a property that is missing from a JSON object (undefined)
ABSENT == "absent"
\* an optional value that is not a string: None when it is null or undefined
None == <<>>
Some(x) == <<x>>

----------------------------------------------------------------------------
(* Characters and strings                                                  *)

Max(S) == CHOOSE x \in S : \A y \in S : y <= x
Min(S) == CHOOSE x \in S : \A y \in S : x <= y

\* all sequences over A of length 0..n
SeqsUpTo(A, n) == UNION {[1..k -> A] : k \in 0..n}

\* JavaScript \s and String.prototype.trim, restricted to the model alphabet
SpaceChars == {" ", "\t", "\n", "\r"}
IsSpace(c) == c \in SpaceChars
\* characters the lexer does not accept in a string, written as atoms:
\* U+0060 grave accent, U+2022 bullet, U+2013 en dash, U+2014 em dash
GraveAccent == "ga"
Bullet == "bu"
EnDash == "en"
EmDash == "em"
\* the character class of cleanField: double quote, single quote, grave accent
IsQuote(c) == c \in {"\"", "'", GraveAccent}

UpperLetters == <<"A","B","C","D","E","F","G","H","I","J","K","L","M","N","O","P","Q","R","S","T","U","V","W","X","Y","Z">>
LowerLetters == <<"a","b","c","d","e","f","g","h","i","j","k","l","m","n","o","p","q","r","s","t","u","v","w","x","y","z">>
LowerChar(c) ==
  IF \E i \in 1..26 : UpperLetters[i] = c
    THEN LowerLetters[CHOOSE i \in 1..26 : UpperLetters[i] = c]
    ELSE c
toLowerCase(s) == [i \in 1..Len(s) |-> LowerChar(s[i])]

\* s.slice(from - 1): the suffix starting at the 1-based index from
Suffix(s, from) == SubSeq(s, from, Len(s))
Prefix(s, to) == SubSeq(s, 1, to)

\* number of leading / trailing characters of s in the class C
\* the length of the run of characters of the class C that starts at i
RECURSIVE RunLen(_, _, _)
RunLen(s, i, C) ==
  IF i <= Len(s) /\ s[i] \in C THEN 1 + RunLen(s, i + 1, C) ELSE 0

\* the length of the run of characters of the class C that ends at i
RECURSIVE RunLenBack(_, _, _)
RunLenBack(s, i, C) ==
  IF i >= 1 /\ s[i] \in C THEN 1 + RunLenBack(s, i - 1, C) ELSE 0

LeadCount(s, C) == RunLen(s, 1, C)
TrailCount(s, C) == RunLenBack(s, Len(s), C)

QuoteChars == {"\"", "'", GraveAccent}

\* String.prototype.trim
trim(s) ==
  LET a == LeadCount(s, SpaceChars)
  IN  IF a = Len(s) THEN <<>>
      ELSE SubSeq(s, a + 1, Len(s) - TrailCount(s, SpaceChars))

\* s.includes(t)
includes(s, t) ==
  \E i \in 1..(Len(s) - Len(t) + 1) : SubSeq(s, i, i + Len(t) - 1) = t

\* s.replace(/\s+/g, " "): every maximal whitespace run becomes one space
CollapseSpaces(s) ==
  LET f[i \in 0..Len(s)] ==
        IF i = 0 THEN <<>>
        ELSE IF ~IsSpace(s[i]) THEN Append(f[i - 1], s[i])
        ELSE IF i > 1 /\ IsSpace(s[i - 1]) THEN f[i - 1]
        ELSE Append(f[i - 1], " ")
  IN  f[Len(s)]

\* cleanField: strip the leading run of quote characters, strip the trailing
\* run of quote characters, replace(/\s+/g, " "), trim()
cleanField(value) ==
  CHOOSE r \in
    {trim(collapsed) :
       collapsed \in
         {CollapseSpaces(Prefix(s1, Len(s1) - TrailCount(s1, QuoteChars))) :
            s1 \in {Suffix(v, LeadCount(v, QuoteChars) + 1) : v \in {value}}}} :
    TRUE

----------------------------------------------------------------------------
(* Defaults of the variable groups a specification does not use           *)

PureIdle ==
  /\ input = <<>> /\ output = <<>> /\ output2 = <<>> /\ phase = "idle"
FetchIdle ==
  /\ fpc = "idle" /\ nextUrl = NULL /\ items = <<>> /\ name = <<>>
  /\ requests = <<>> /\ inflight = 0 /\ pageNexts = <<>> /\ pageItems = <<>>
  /\ lastOutcome = <<"none", 0>> /\ fresult = [kind |-> "none"]
  /\ tokenRequests = 0
MkIdle ==
  /\ musicKitInstance = 0 /\ mkpc = <<>> /\ mkResult = <<>> /\ mkFetch = <<>>
  /\ tokenFetches = 0 /\ scriptLoaded = FALSE /\ attempts = <<>>
  /\ calls = <<>>
AddIdle ==
  /\ addpc = "idle" /\ uris = <<>> /\ chunks = <<>> /\ chunk_i = 0
  /\ posted = <<>> /\ postStatuses = <<>>
UiIdle ==
  /\ appState = "IDLE" /\ manifest = None /\ error = NULL
  /\ transferProgress = 0 /\ direction = "spotify-to-apple"
  /\ spotifyToken = NULL /\ isAppleAuthorized = FALSE
  /\ pending = None /\ data = None
  /\ spc = "idle" /\ updatedTracks = <<>> /\ trackIds = <<>> /\ loop_i = 0
  /\ loopTrack = None
AppIdle == UiIdle /\ AddIdle

----------------------------------------------------------------------------
(* cleanField applied once and twice                                       *)

MaxFieldLen == 4
FieldAlphabet == {"\"", "'", " ", "\t", "a", "b"}

InitClean ==
  /\ input \in SeqsUpTo(FieldAlphabet, MaxFieldLen)
  /\ output = <<>> /\ output2 = <<>> /\ phase = "start"
  /\ FetchIdle /\ MkIdle /\ AppIdle

CleanOnce ==
  /\ phase = "start"
  /\ output' = cleanField(input)
  /\ phase' = "once"
  /\ UNCHANGED <<input, output2, fetchVars, mkVars, appVars>>

CleanTwice ==
  /\ phase = "once"
  /\ output2' = cleanField(output)
  /\ phase' = "twice"
  /\ UNCHANGED <<input, output, fetchVars, mkVars, appVars>>

NextClean == CleanOnce \/ CleanTwice
SpecClean == InitClean /\ [][NextClean]_vars

\* C5: cleanField is idempotent: cleaning the cleaned value changes nothing.
C5_CleanFieldIdempotent == phase = "twice" => output2 = output

----------------------------------------------------------------------------
(* fetchSpotifyPlaylist: the pagination loop and the manifest it builds    *)

\* the most page requests one call issues in the model
MaxRequests == 3

\* playlistUrl.toString(), and the cursors the remote may hand out
InitialUrl == "u0"
CursorUrls == {"u1", "u2"}

\* the items a page may carry, by number, and the track each one holds
ItemTrack(i) ==
  CASE i = 1 -> Some([name    |-> Some(<<"a">>),
                      artists |-> Some(<< Some(<<"x">>) >>),
                      album   |-> Some(<<"l">>)])
    [] i = 2 -> None
    [] i = 3 -> Some([name    |-> Some(<<"b">>),
                      artists |-> Some(<< None, Some(<<"y">>), Some(<<"z">>) >>),
                      album   |-> None])
    [] i = 4 -> Some([name    |-> Some(<<"'">>),
                      artists |-> Some(<< Some(<<"x">>) >>),
                      album   |-> None])
    [] OTHER -> Some([name |-> Some(<<"c">>), artists |-> None, album |-> None])

\* what the items property of a response may be
PageItemChoices == {None, Some(<<1>>), Some(<<2, 3>>), Some(<<4>>)}
\* what the next property of a response may be
PageNextChoices == {ABSENT, NULL} \cup CursorUrls
\* what the name property of a playlist envelope may be
EnvelopeNames == {None, Some(<<"A">>), Some(<<"B">>), Some(<<"'">>)}
\* the status codes of a response that is not ok
FailureStatuses == {401, 403, 404, 500}

MsgRequestFailed == "Spotify request failed. Paste the track list instead."
MsgNotFound      == "Spotify playlist not found or not public."
MsgAccessDenied  ==
  "Spotify playlist could not be accessed. Paste the track list instead."
MsgNoTracks      == "No tracks found in the Spotify playlist."
MsgTokenNetwork  ==
  "Network error accessing Spotify API. Please check your connection."
MsgTokenStatus   == "Spotify API Error"
MsgTokenInvalid  == "Invalid response from Spotify API."
MsgBodyRejected  == "response.json() rejected"

\* "Spotify Playlist"
DefaultSpotifyName ==
  <<"S","p","o","t","i","f","y"," ","P","l","a","y","l","i","s","t">>

\* a faulty variant of StatusMessage that reports a 403 as the generic failure
StatusMessage_403Generic(status) ==
  IF status = 404 THEN MsgNotFound
  ELSE IF status = 401 THEN MsgAccessDenied
  ELSE MsgRequestFailed

\* the message thrown for a response that is not ok
StatusMessage(status) ==
  IF status = 404 THEN MsgNotFound
  ELSE IF status = 401 \/ status = 403 THEN MsgAccessDenied
  ELSE MsgRequestFailed

\* a faulty variant of PushItems that puts the new page in front
PushItems_Prepend(acc, raw) == IF raw = None THEN acc ELSE raw[1] \o acc

\* if (Array.isArray(x.items)) items.push(...x.items)
PushItems(acc, raw) == IF raw = None THEN acc ELSE acc \o raw[1]

\* a faulty variant of Cursor that falls back to the playlist url when next is absent
Cursor_AbsentRestarts(raw) == IF raw = ABSENT THEN InitialUrl ELSE raw

\* x.next ?? null
Cursor(raw) == IF raw = ABSENT THEN NULL ELSE raw

\* a faulty variant of Throw that swallows the error and goes round the loop again
Throw_Continue(message) ==
  /\ fpc' = "loop"
  /\ fresult' = fresult

\* throw new Error(message): the call ends and rejects with the message
Throw(message) ==
  /\ fpc' = "done"
  /\ fresult' = [kind |-> "error", message |-> message]

\* names.join(sep)
RECURSIVE Join(_, _)
Join(parts, sep) ==
  IF parts = <<>> THEN <<>>
  ELSE IF Len(parts) = 1 THEN parts[1]
  ELSE parts[1] \o sep \o Join(Tail(parts), sep)

\* x ?? ""
OrEmpty(opt) == IF opt = None THEN <<>> ELSE opt[1]

\* the title, artist and album of one remote track
RemoteTrack(track) ==
  [title  |-> cleanField(OrEmpty(track.name)),
   artist |-> cleanField(
     IF track.artists = None THEN <<>>
     ELSE Join(SelectSeq([k \in 1..Len(track.artists[1]) |->
                            OrEmpty(track.artists[1][k])],
                         LAMBDA n : n # <<>>),
               <<",", " ">>)),
   album  |-> cleanField(OrEmpty(track.album))]

\* a faulty variant of TrackList that keeps the tracks without title or artist
TrackList_NoFilter(its) ==
  LET tracks == SelectSeq([k \in 1..Len(its) |-> ItemTrack(its[k])],
                          LAMBDA t : t # None)
  IN  [k \in 1..Len(tracks) |-> RemoteTrack(tracks[k][1])]

\* items.map(item => item.track).filter(Boolean).map(...).filter(title && artist)
TrackList(its) ==
  CHOOSE r \in
    {SelectSeq([k \in 1..Len(tracks) |-> RemoteTrack(tracks[k][1])],
               LAMBDA t : t.title # <<>> /\ t.artist # <<>>) :
       tracks \in {SelectSeq([k \in 1..Len(its) |-> ItemTrack(its[k])],
                             LAMBDA t : t # None)}} :
    TRUE

\* a faulty variant of WithIds that numbers the tracks from 1
WithIds_FromOne(trackList) ==
  [k \in 1..Len(trackList) |->
     [id |-> k, title |-> trackList[k].title,
      artist |-> trackList[k].artist, album |-> trackList[k].album,
      status |-> "pending"]]

\* trackList.map((track, index) => ({...track, id: "track-" + index, status}))
\* the identifier track-<index> is kept as the index
WithIds(trackList) ==
  [k \in 1..Len(trackList) |->
     [id |-> k - 1, title |-> trackList[k].title,
      artist |-> trackList[k].artist, album |-> trackList[k].album,
      status |-> "pending"]]

InitFetch ==
  /\ fpc = "start" /\ nextUrl = NULL /\ items = <<>> /\ name = <<>>
  /\ requests = <<>> /\ inflight = 0 /\ pageNexts = <<>> /\ pageItems = <<>>
  /\ lastOutcome = <<"none", 0>> /\ fresult = [kind |-> "none"]
  /\ tokenRequests = 0
  /\ PureIdle /\ MkIdle /\ AppIdle

\* const token = userToken || ...: the caller supplied a token
StartWithUserToken ==
  /\ fpc = "start"
  /\ fpc' = "loop"
  /\ nextUrl' = InitialUrl
  /\ UNCHANGED <<items, name, requests, inflight, pageNexts, pageItems,
                 lastOutcome, fresult, tokenRequests, pureVars, mkVars, appVars>>

\* ... || await getSpotifyAccessToken(): the token request is sent
StartTokenRequest ==
  /\ fpc = "start"
  /\ fpc' = "token"
  /\ tokenRequests' = tokenRequests + 1
  /\ UNCHANGED <<nextUrl, items, name, requests, inflight, pageNexts,
                 pageItems, lastOutcome, fresult, pureVars, mkVars, appVars>>

TokenReceived ==
  /\ fpc = "token"
  /\ fpc' = "loop"
  /\ nextUrl' = InitialUrl
  /\ UNCHANGED <<items, name, requests, inflight, pageNexts, pageItems,
                 lastOutcome, fresult, tokenRequests, pureVars, mkVars, appVars>>

TokenFailed ==
  /\ fpc = "token"
  /\ \E m \in {MsgTokenNetwork, MsgTokenStatus, MsgTokenInvalid} : Throw(m)
  /\ UNCHANGED <<nextUrl, items, name, requests, inflight, pageNexts,
                 pageItems, lastOutcome, tokenRequests, pureVars, mkVars, appVars>>

\* while (nextUrl) { response = await fetch(nextUrl, ...)
IssueRequest ==
  /\ fpc = "loop"
  /\ nextUrl # NULL
  /\ Len(requests) < MaxRequests
  /\ requests' = Append(requests, nextUrl)
  /\ inflight' = inflight + 1
  /\ fpc' = "awaiting"
  /\ UNCHANGED <<nextUrl, items, name, pageNexts, pageItems, lastOutcome,
                 fresult, tokenRequests, pureVars, mkVars, appVars>>

\* fetch rejected: catch { throw new Error("Spotify request failed...") }
TransportFailure ==
  /\ fpc = "awaiting"
  /\ inflight' = inflight - 1
  /\ lastOutcome' = <<"transport", 0>>
  /\ Throw(MsgRequestFailed)
  /\ UNCHANGED <<nextUrl, items, name, requests, pageNexts, pageItems,
                 tokenRequests, pureVars, mkVars, appVars>>

\* if (!response.ok) { ... throw ... }
StatusFailure ==
  /\ fpc = "awaiting"
  /\ \E status \in FailureStatuses :
       /\ lastOutcome' = <<"status", status>>
       /\ Throw(StatusMessage(status))
  /\ inflight' = inflight - 1
  /\ UNCHANGED <<nextUrl, items, name, requests, pageNexts, pageItems,
                 tokenRequests, pureVars, mkVars, appVars>>

\* await response.json() rejected: nothing catches it
BodyFailure ==
  /\ fpc = "awaiting"
  /\ inflight' = inflight - 1
  /\ lastOutcome' = <<"body", 200>>
  /\ fpc' = "done"
  /\ fresult' = [kind |-> "error", message |-> MsgBodyRejected]
  /\ UNCHANGED <<nextUrl, items, name, requests, pageNexts, pageItems,
                 tokenRequests, pureVars, mkVars, appVars>>

\* a faulty variant of KeepFirstName in which every named envelope renames the playlist
KeepFirstName_LastWins(current, raw) ==
  IF OrEmpty(raw) # <<>> THEN raw[1] ELSE current

\* if (!name && data.name) name = data.name
KeepFirstName(current, raw) ==
  IF current = <<>> /\ OrEmpty(raw) # <<>> THEN raw[1] ELSE current

\* if ("tracks" in data) { ... }: a playlist envelope
EnvelopeResponse ==
  /\ fpc = "awaiting"
  /\ \E nm \in EnvelopeNames, its \in PageItemChoices, nx \in PageNextChoices :
       /\ name' = KeepFirstName(name, nm)
       /\ items' = PushItems(items, its)
       /\ nextUrl' = Cursor(nx)
       /\ pageNexts' = Append(pageNexts, nx)
       /\ pageItems' = Append(pageItems, its)
  /\ inflight' = inflight - 1
  /\ lastOutcome' = <<"ok", 200>>
  /\ fpc' = "loop"
  /\ UNCHANGED <<requests, fresult, tokenRequests, pureVars, mkVars, appVars>>

\* else { ... }: a bare page of tracks
PageResponse ==
  /\ fpc = "awaiting"
  /\ \E its \in PageItemChoices, nx \in PageNextChoices :
       /\ items' = PushItems(items, its)
       /\ nextUrl' = Cursor(nx)
       /\ pageNexts' = Append(pageNexts, nx)
       /\ pageItems' = Append(pageItems, its)
  /\ inflight' = inflight - 1
  /\ lastOutcome' = <<"ok", 200>>
  /\ fpc' = "loop"
  /\ UNCHANGED <<name, requests, fresult, tokenRequests, pureVars, mkVars, appVars>>

\* the loop ends, the track list is empty: throw
FinishNoTracks ==
  /\ fpc = "loop"
  /\ nextUrl = NULL
  /\ \E trackList \in {TrackList(items)} : trackList = <<>>
  /\ Throw(MsgNoTracks)
  /\ UNCHANGED <<nextUrl, items, name, requests, inflight, pageNexts,
                 pageItems, lastOutcome, tokenRequests, pureVars, mkVars, appVars>>

\* the loop ends: return { name: cleanField(name) || "Spotify Playlist", tracks }
FinishManifest ==
  /\ fpc = "loop"
  /\ nextUrl = NULL
  /\ \E trackList \in {TrackList(items)}, cleaned \in {cleanField(name)} :
       /\ trackList # <<>>
       /\ fpc' = "done"
       /\ fresult' = [kind   |-> "manifest",
                      name   |-> IF cleaned # <<>> THEN cleaned
                                 ELSE DefaultSpotifyName,
                      tracks |-> WithIds(trackList)]
  /\ UNCHANGED <<nextUrl, items, name, requests, inflight, pageNexts,
                 pageItems, lastOutcome, tokenRequests, pureVars, mkVars, appVars>>

NextFetch ==
  \/ StartWithUserToken \/ StartTokenRequest \/ TokenReceived \/ TokenFailed
  \/ IssueRequest \/ TransportFailure \/ StatusFailure \/ BodyFailure
  \/ EnvelopeResponse \/ PageResponse \/ FinishNoTracks \/ FinishManifest
SpecFetch == InitFetch /\ [][NextFetch]_vars

\* the items of all pages received, in page order
RECURSIVE ConcatPages(_)
ConcatPages(pages) ==
  IF pages = <<>> THEN <<>>
  ELSE (IF pages[1] = None THEN <<>> ELSE pages[1][1])
       \o ConcatPages(Tail(pages))

\* the last page request failed: fetch rejected or the status was not ok
RequestFailed == lastOutcome[1] \in {"transport", "status"}

\* C1: for n successful pages of which the first n-1 carry a cursor and the
\* last has next null or absent, exactly n requests are issued, one at a
\* time, the first to the playlist URL and each follow-up to the cursor of the
\* page before it, and the accumulated items are the pages' items in order.
C1_SequentialPagination ==
  /\ inflight \in {0, 1}
  /\ (inflight = 1) <=> (fpc = "awaiting")
  /\ Len(requests) = Len(pageNexts) + inflight
                       + (IF lastOutcome[1] \in {"transport", "status", "body"}
                          THEN 1 ELSE 0)
  /\ \A k \in 1..Len(requests) :
       requests[k] = IF k = 1 THEN InitialUrl ELSE pageNexts[k - 1]
  /\ \A k \in 1..(Len(pageNexts) - 1) : pageNexts[k] \in CursorUrls
  /\ ( /\ lastOutcome[1] = "ok"
       /\ pageNexts[Len(pageNexts)] \in {NULL, ABSENT} )
     => /\ fpc \in {"loop", "done"}
        /\ Len(requests) = Len(pageNexts)
        /\ items = ConcatPages(pageItems)

\* three pages were fetched, each with items, and a manifest was returned
C1_Witness ==
  /\ fpc = "done" /\ fresult.kind = "manifest"
  /\ Len(requests) = 3 /\ requests[2] # requests[3]
  /\ \A k \in 1..3 : pageItems[k] # None
  /\ pageItems[1] # pageItems[2]

\* C2: once a page request has failed, the call has ended with an error, no
\* manifest is returned, and no request follows the failed one.
C2_FailureAborts ==
  RequestFailed =>
    /\ fpc = "done"
    /\ fresult.kind = "error"
    /\ inflight = 0
    /\ Len(requests) = Len(pageNexts) + 1

\* the third request failed after two pages with items had been accumulated
C2_Witness ==
  /\ RequestFailed /\ Len(requests) = 3 /\ Len(items) >= 2
  /\ fresult.kind = "error"

\* C3: a failed page request is reported as not found for 404, as access
\* denied for 401 and 403, and as the generic failure for a rejected fetch
\* and every other status; the three messages differ.
C3_ErrorKinds ==
  /\ Cardinality({MsgNotFound, MsgAccessDenied, MsgRequestFailed}) = 3
  /\ RequestFailed =>
       /\ fresult.kind = "error"
       /\ fresult.message =
            CASE lastOutcome = <<"status", 404>> -> MsgNotFound
              [] lastOutcome \in {<<"status", 401>>, <<"status", 403>>} ->
                   MsgAccessDenied
              [] OTHER -> MsgRequestFailed

\* a 403 on a follow-up request was reported as access denied
C3_Witness ==
  /\ lastOutcome = <<"status", 403>> /\ Len(requests) = 2
  /\ fresult = [kind |-> "error", message |-> MsgAccessDenied]

----------------------------------------------------------------------------
(* initializeMusicKit: the module-level instance and its concurrent callers *)

\* the callers that may run initializeMusicKit at the same time
MaxCallers == 2
\* the calls each caller makes, one after the other
MaxCalls == 2
\* while (!window.MusicKit && attempts < 10)
MaxPollAttempts == 10

Callers == 1..MaxCallers

MsgNotLoaded   == "MusicKit JS not loaded"
MsgTokenFetch  == "Failed to fetch developer token"
MsgConfigure   == "MusicKit.configure rejected"

\* The instance MusicKit.configure resolves to is named by the number of the
\* token request whose token configured it; 0 is the null of line 11.
InitMk ==
  /\ musicKitInstance = 0
  /\ mkpc = [c \in Callers |-> "idle"]
  /\ mkResult = [c \in Callers |-> <<"none", 0>>]
  /\ mkFetch = [c \in Callers |-> 0]
  /\ tokenFetches = 0
  /\ scriptLoaded \in BOOLEAN
  /\ attempts = [c \in Callers |-> 0]
  /\ calls = [c \in Callers |-> 0]
  /\ PureIdle /\ FetchIdle /\ AppIdle

\* fetch("/api/apple-token") is sent by caller c
SendTokenRequest(c) ==
  /\ tokenFetches' = tokenFetches + 1
  /\ mkFetch' = [mkFetch EXCEPT ![c] = tokenFetches + 1]
  /\ mkpc' = [mkpc EXCEPT ![c] = "fetching"]

\* the call rejects with the message
MkThrow(c, message) ==
  /\ mkpc' = [mkpc EXCEPT ![c] = "idle"]
  /\ mkResult' = [mkResult EXCEPT ![c] = <<"error", message>>]

\* if (musicKitInstance) return musicKitInstance;
CallCached(c) ==
  /\ mkpc[c] = "idle" /\ calls[c] < MaxCalls
  /\ musicKitInstance # 0
  /\ calls' = [calls EXCEPT ![c] = @ + 1]
  /\ mkResult' = [mkResult EXCEPT ![c] = <<"ok", musicKitInstance>>]
  /\ UNCHANGED <<musicKitInstance, mkpc, mkFetch, tokenFetches, scriptLoaded,
                 attempts, pureVars, fetchVars, appVars>>

\* the instance is null and the script is loaded: the token request is sent
CallFetch(c) ==
  /\ mkpc[c] = "idle" /\ calls[c] < MaxCalls
  /\ musicKitInstance = 0
  /\ scriptLoaded
  /\ calls' = [calls EXCEPT ![c] = @ + 1]
  /\ mkResult' = [mkResult EXCEPT ![c] = <<"none", 0>>]
  /\ SendTokenRequest(c)
  /\ UNCHANGED <<musicKitInstance, scriptLoaded, attempts, pureVars,
                 fetchVars, appVars>>

\* the instance is null and the script is not loaded: wait 500 ms
CallPoll(c) ==
  /\ mkpc[c] = "idle" /\ calls[c] < MaxCalls
  /\ musicKitInstance = 0
  /\ ~scriptLoaded
  /\ calls' = [calls EXCEPT ![c] = @ + 1]
  /\ mkResult' = [mkResult EXCEPT ![c] = <<"none", 0>>]
  /\ attempts' = [attempts EXCEPT ![c] = 0]
  /\ mkpc' = [mkpc EXCEPT ![c] = "polling"]
  /\ UNCHANGED <<musicKitInstance, mkFetch, tokenFetches, scriptLoaded,
                 pureVars, fetchVars, appVars>>

\* the timer fires; attempts++; the loop goes on
PollAgain(c) ==
  /\ mkpc[c] = "polling"
  /\ ~scriptLoaded /\ attempts[c] + 1 < MaxPollAttempts
  /\ attempts' = [attempts EXCEPT ![c] = @ + 1]
  /\ UNCHANGED <<musicKitInstance, mkpc, mkResult, mkFetch, tokenFetches,
                 scriptLoaded, calls, pureVars, fetchVars, appVars>>

\* the timer fires; the loop ends without the script: throw
PollGiveUp(c) ==
  /\ mkpc[c] = "polling"
  /\ ~scriptLoaded /\ attempts[c] + 1 >= MaxPollAttempts
  /\ attempts' = [attempts EXCEPT ![c] = 0]   \* the local is gone
  /\ MkThrow(c, MsgNotLoaded)
  /\ UNCHANGED <<musicKitInstance, mkFetch, tokenFetches, scriptLoaded,
                 calls, pureVars, fetchVars, appVars>>

\* the timer fires; the script has loaded: the token request is sent
PollLoaded(c) ==
  /\ mkpc[c] = "polling"
  /\ scriptLoaded
  /\ attempts' = [attempts EXCEPT ![c] = 0]   \* the local is gone
  /\ SendTokenRequest(c)
  /\ UNCHANGED <<musicKitInstance, mkResult, scriptLoaded, calls, pureVars,
                 fetchVars, appVars>>

\* the MusicKit script finishes loading
ScriptLoads ==
  /\ ~scriptLoaded
  /\ scriptLoaded' = TRUE
  /\ UNCHANGED <<musicKitInstance, mkpc, mkResult, mkFetch, tokenFetches,
                 attempts, calls, pureVars, fetchVars, appVars>>

\* the token arrives; MusicKit.configure is called
TokenArrives(c) ==
  /\ mkpc[c] = "fetching"
  /\ mkpc' = [mkpc EXCEPT ![c] = "configuring"]
  /\ UNCHANGED <<musicKitInstance, mkResult, mkFetch, tokenFetches,
                 scriptLoaded, attempts, calls, pureVars, fetchVars, appVars>>

\* the token request fails: throw
TokenRequestFails(c) ==
  /\ mkpc[c] = "fetching"
  /\ MkThrow(c, MsgTokenFetch)
  /\ UNCHANGED <<musicKitInstance, mkFetch, tokenFetches, scriptLoaded,
                 attempts, calls, pureVars, fetchVars, appVars>>

\* musicKitInstance = await window.MusicKit.configure(...); return it
ConfigureDone(c) ==
  /\ mkpc[c] = "configuring"
  /\ musicKitInstance' = mkFetch[c]
  /\ mkpc' = [mkpc EXCEPT ![c] = "idle"]
  /\ mkResult' = [mkResult EXCEPT ![c] = <<"ok", mkFetch[c]>>]
  /\ UNCHANGED <<mkFetch, tokenFetches, scriptLoaded, attempts, calls,
                 pureVars, fetchVars, appVars>>

\* configure rejects: throw
ConfigureFails(c) ==
  /\ mkpc[c] = "configuring"
  /\ MkThrow(c, MsgConfigure)
  /\ UNCHANGED <<musicKitInstance, mkFetch, tokenFetches, scriptLoaded,
                 attempts, calls, pureVars, fetchVars, appVars>>

NextMk ==
  \/ ScriptLoads
  \/ \E c \in Callers :
       \/ CallCached(c) \/ CallFetch(c) \/ CallPoll(c)
       \/ PollAgain(c) \/ PollGiveUp(c) \/ PollLoaded(c)
       \/ TokenArrives(c) \/ TokenRequestFails(c)
       \/ ConfigureDone(c) \/ ConfigureFails(c)
SpecMk == InitMk /\ [][NextMk]_vars

\* the callers whose token request is in flight
TokenInFlight == {c \in Callers : mkpc[c] = "fetching"}

\* C4: initialization is single-flight: at most one token request is in
\* flight at any time, and callers whose calls overlap receive the instance
\* of the same request.
C4_SingleFlight ==
  /\ Cardinality(TokenInFlight) <= 1
  /\ \A c, d \in Callers :
       (mkResult[c][1] = "ok" /\ mkResult[d][1] = "ok" /\ calls[c] = 1
        /\ calls[d] = 1)
         => mkResult[c][2] = mkResult[d][2]

----------------------------------------------------------------------------
(* String.prototype.split by the regular expressions of the parser         *)

\* the length of the match of \s*<c>\s* that starts at i, 0 when there is none
PaddedLen(s, i, c) ==
  LET a == RunLen(s, i, SpaceChars)
  IN  IF i + a <= Len(s) /\ s[i + a] = c
        THEN a + 1 + RunLen(s, i + a + 1, SpaceChars)
        ELSE 0

\* the length of the match of the delimiter that starts at i, 0 when none
DelimLen(kind, s, i) ==
  CASE kind = "newline"   -> IF s[i] = "\n" THEN 1 ELSE 0
    [] kind = "semicolon" -> PaddedLen(s, i, ";")
    [] kind = "bullet"    -> PaddedLen(s, i, Bullet)
    [] kind = "pipe"      -> PaddedLen(s, i, "|")
    [] kind = "comma"     -> PaddedLen(s, i, ",")
    [] kind = "tabs"      -> RunLen(s, i, {"\t"})
    [] kind = "dash"      ->
         IF /\ i + 2 <= Len(s) /\ IsSpace(s[i])
            /\ s[i + 1] \in {"-", EnDash, EmDash} /\ IsSpace(s[i + 2])
           THEN 3 ELSE 0

\* s.split(delimiter), scanning from i with the current part starting at start
RECURSIVE SplitFrom(_, _, _, _)
SplitFrom(s, kind, i, start) ==
  IF i > Len(s) THEN << SubSeq(s, start, Len(s)) >>
  ELSE LET n == DelimLen(kind, s, i)
       IN  IF n > 0
             THEN << SubSeq(s, start, i - 1) >> \o SplitFrom(s, kind, i + n, i + n)
             ELSE SplitFrom(s, kind, i + 1, start)

Split(s, kind) == SplitFrom(s, kind, 1, 1)

\* parts.map((line) => line.trim()).filter(Boolean)
TrimmedNonEmpty(parts) ==
  SelectSeq([k \in 1..Len(parts) |-> trim(parts[k])], LAMBDA x : x # <<>>)

\* text.replace(/\r\n/g, "\n")
ReplaceCRLF(s) ==
  LET f[i \in 0..Len(s)] ==
        IF i = 0 THEN <<>>
        ELSE IF s[i] = "\r" /\ i < Len(s) /\ s[i + 1] = "\n" THEN f[i - 1]
        ELSE Append(f[i - 1], s[i])
  IN  f[Len(s)]

\* .replace(/\r/g, "\n")
ReplaceCR(s) == [i \in 1..Len(s) |-> IF s[i] = "\r" THEN "\n" ELSE s[i]]

\* a faulty variant of NormalizeLineEndings that leaves a lone carriage return alone
NormalizeLineEndings_NoCR(text) == ReplaceCRLF(text)

NormalizeLineEndings(text) == ReplaceCR(ReplaceCRLF(text))

splitCandidateLines_BulletFirst(text) ==
  LET normalized == NormalizeLineEndings(text)
      lines == TrimmedNonEmpty(Split(normalized, "newline"))
  IN  IF Len(lines) = 1
        THEN LET single == lines[1]
                 semicolonSplit == TrimmedNonEmpty(Split(single, "semicolon"))
                 bulletSplit == TrimmedNonEmpty(Split(single, "bullet"))
             IN  IF Len(bulletSplit) > 1 THEN bulletSplit
                 ELSE IF Len(semicolonSplit) > 1 THEN semicolonSplit
                 ELSE lines
        ELSE lines

splitCandidateLines(text) ==
  LET normalized == NormalizeLineEndings(text)
      lines == TrimmedNonEmpty(Split(normalized, "newline"))
  IN  IF Len(lines) = 1
        THEN LET single == lines[1]
                 semicolonSplit == TrimmedNonEmpty(Split(single, "semicolon"))
                 bulletSplit == TrimmedNonEmpty(Split(single, "bullet"))
             IN  IF Len(semicolonSplit) > 1 THEN semicolonSplit
                 ELSE IF Len(bulletSplit) > 1 THEN bulletSplit
                 ELSE lines
        ELSE lines

----------------------------------------------------------------------------
(* splitCandidateLines applied to a text                                   *)

MaxTextLen == 5
TextAlphabet == {"a", "b", " ", "\n", "\r", ";", Bullet}

InitSegment ==
  /\ input \in SeqsUpTo(TextAlphabet, MaxTextLen)
  /\ output = <<>> /\ output2 = <<>> /\ phase = "start"
  /\ FetchIdle /\ MkIdle /\ AppIdle

Segment ==
  /\ phase = "start"
  /\ output' = splitCandidateLines(input)
  /\ phase' = "done"
  /\ UNCHANGED <<input, output2, fetchVars, mkVars, appVars>>

NextSegment == Segment
SpecSegment == InitSegment /\ [][NextSegment]_vars

\* the maximal runs of s that hold no character of Seps, trimmed, the blank
\* ones dropped, in the order of s
RunsOutside(s, Seps) ==
  LET starts == {a \in 1..Len(s) :
                   s[a] \notin Seps /\ (a = 1 \/ s[a - 1] \in Seps)}
      RunAt(a) == SubSeq(s, a, a + RunLen(s, a, {s[j] : j \in 1..Len(s)} \ Seps) - 1)
      ordered[n \in 0..Len(s)] ==
        IF n = 0 THEN <<>>
        ELSE IF n \in starts /\ trim(RunAt(n)) # <<>>
               THEN Append(ordered[n - 1], trim(RunAt(n)))
               ELSE ordered[n - 1]
  IN  ordered[Len(s)]

NewlineDelimited(s) == RunsOutside(s, {"\n", "\r"})

\* C6 as stated: for a non-blank input the candidate lines are exactly the
\* non-empty newline-delimited lines of the input, trimmed, in order.
C6_LinesAreNewlineLines ==
  (phase = "done" /\ trim(input) # <<>>) => output = NewlineDelimited(input)

\* C6 as amended: the candidate lines are the non-empty newline-delimited
\* lines, trimmed and in order, unless there is exactly one such line and
\* it splits on semicolons or, failing that, on bullets into more than one
\* non-empty part; then the candidate lines are those parts.
C6_LinesOrFallback ==
  (phase = "done" /\ trim(input) # <<>>) =>
    LET expected == NewlineDelimited(input)
        semi == RunsOutside(expected[1], {";"})
        bullets == RunsOutside(expected[1], {Bullet})
    IN  /\ Len(expected) >= 1
        /\ output = IF Len(expected) = 1 /\ Len(semi) > 1 THEN semi
                    ELSE IF Len(expected) = 1 /\ Len(bullets) > 1 THEN bullets
                    ELSE expected

\* three lines separated by a carriage return and a line feed came back as
\* three candidate lines
C6_Witness ==
  /\ phase = "done" /\ Len(output) = 3
  /\ Len(NewlineDelimited(input)) = 3 /\ output[1] # output[2]
  /\ \E i \in 1..Len(input) : input[i] = "\r"

----------------------------------------------------------------------------
(* The title/artist disambiguator                                          *)

TITLE_HINTS ==
  << <<"r","e","m","i","x">>, <<"m","i","x">>, <<"e","d","i","t">>,
     <<"v","e","r","s","i","o","n">>, <<"l","i","v","e">>,
     <<"d","e","m","o">>, <<"a","c","o","u","s","t","i","c">>,
     <<"i","n","s","t","r","u","m","e","n","t","a","l">>,
     <<"r","e","m","a","s","t","e","r">>,
     <<"r","e","m","a","s","t","e","r","e","d">>,
     <<"r","a","d","i","o">>, <<"e","x","t","e","n","d","e","d">>,
     <<"f","e","a","t">>, <<"f","t">>,
     <<"f","e","a","t","u","r","i","n","g">> >>

\* the character class of the bracket test of scoreTitle: ( [ { ]
ScoreBrackets == {"(", "[", "{", "]"}
DigitChars == {"0", "1", "2", "3", "4", "5", "6", "7", "8", "9"}

\* /[([{\]]/.test(value)
HasBracket(value) == \E i \in 1..Len(value) : value[i] \in ScoreBrackets
\* /\d{4}/.test(value)
HasFourDigits(value) ==
  \E i \in 1..(Len(value) - 3) : \A j \in i..(i + 3) : value[j] \in DigitChars

scoreTitle(value) ==
  LET lower == toLowerCase(value)
  IN  2 * Cardinality({h \in 1..Len(TITLE_HINTS) : includes(lower, TITLE_HINTS[h])})
      + (IF HasBracket(value) THEN 1 ELSE 0)
      + (IF HasFourDigits(value) THEN 1 ELSE 0)

scoreArtist(value) ==
  LET lower == toLowerCase(value)
  IN  (IF includes(value, <<"&">>) THEN 1 ELSE 0)
      + (IF includes(lower, <<" ","x"," ">>) THEN 1 ELSE 0)
      + (IF includes(lower, <<" ","v","s"," ">>) THEN 1 ELSE 0)
      + (IF includes(lower, <<" ","a","n","d"," ">>) THEN 1 ELSE 0)
      + (IF includes(lower, <<" ","w","i","t","h"," ">>) THEN 1 ELSE 0)

\* a faulty variant of resolveTitleArtist whose first two rules ask for a
\* strictly higher artist score on the other side
resolveTitleArtist_StrictArtist(left, right) ==
  LET leftTitleScore == scoreTitle(left)
      rightTitleScore == scoreTitle(right)
      leftArtistScore == scoreArtist(left)
      rightArtistScore == scoreArtist(right)
  IN  IF leftTitleScore > rightTitleScore /\ rightArtistScore > leftArtistScore
        THEN [title |-> left, artist |-> right]
      ELSE IF rightTitleScore > leftTitleScore /\ leftArtistScore > rightArtistScore
        THEN [title |-> right, artist |-> left]
      ELSE IF rightArtistScore > leftArtistScore
        THEN [title |-> left, artist |-> right]
      ELSE IF leftArtistScore > rightArtistScore
        THEN [title |-> right, artist |-> left]
      ELSE [title |-> left, artist |-> right]

\* a faulty variant of resolveTitleArtist whose first two rules ignore the artist scores
resolveTitleArtist_TitleOnly(left, right) ==
  LET leftTitleScore == scoreTitle(left)
      rightTitleScore == scoreTitle(right)
      leftArtistScore == scoreArtist(left)
      rightArtistScore == scoreArtist(right)
  IN  IF leftTitleScore > rightTitleScore
        THEN [title |-> left, artist |-> right]
      ELSE IF rightTitleScore > leftTitleScore
        THEN [title |-> right, artist |-> left]
      ELSE IF rightArtistScore > leftArtistScore
        THEN [title |-> left, artist |-> right]
      ELSE IF leftArtistScore > rightArtistScore
        THEN [title |-> right, artist |-> left]
      ELSE [title |-> left, artist |-> right]

resolveTitleArtist(left, right) ==
  LET leftTitleScore == scoreTitle(left)
      rightTitleScore == scoreTitle(right)
      leftArtistScore == scoreArtist(left)
      rightArtistScore == scoreArtist(right)
  IN  IF leftTitleScore > rightTitleScore /\ rightArtistScore >= leftArtistScore
        THEN [title |-> left, artist |-> right]
      ELSE IF rightTitleScore > leftTitleScore /\ leftArtistScore >= rightArtistScore
        THEN [title |-> right, artist |-> left]
      ELSE IF rightArtistScore > leftArtistScore
        THEN [title |-> left, artist |-> right]
      ELSE IF leftArtistScore > rightArtistScore
        THEN [title |-> right, artist |-> left]
      ELSE [title |-> left, artist |-> right]

----------------------------------------------------------------------------
(* The track-line parser                                                   *)

\* cleaned.replace(/^\s*\d+\s*[\.\)\-:]\s*/, "")
StripNumberPrefix(s) ==
  LET a == RunLen(s, 1, SpaceChars)
      d == RunLen(s, 1 + a, DigitChars)
      b == RunLen(s, 1 + a + d, SpaceChars)
      p == 1 + a + d + b
  IN  IF d >= 1 /\ p <= Len(s) /\ s[p] \in {".", ")", "-", ":"}
        THEN Suffix(s, p + 1 + RunLen(s, p + 1, SpaceChars))
        ELSE s

\* cleaned.replace(/^\s*[\u2022\-\*\+]+\s*/, "")
StripBulletPrefix(s) ==
  LET a == RunLen(s, 1, SpaceChars)
      m == RunLen(s, 1 + a, {Bullet, "-", "*", "+"})
  IN  IF m >= 1
        THEN Suffix(s, 1 + a + m + RunLen(s, 1 + a + m, SpaceChars))
        ELSE s

stripLinePrefix(line) == trim(StripBulletPrefix(StripNumberPrefix(trim(line))))

\* value.split(delimiter).map(cleanField).filter(Boolean)
splitParts(value, kind) ==
  LET raw == Split(value, kind)
  IN  SelectSeq([k \in 1..Len(raw) |-> cleanField(raw[k])], LAMBDA x : x # <<>>)

buildFromParts(parts) ==
  IF Len(parts) < 2 THEN None
  ELSE LET resolved == resolveTitleArtist(parts[1], parts[2])
           rest == SubSeq(parts, 3, Len(parts))
           album == IF rest # <<>> THEN cleanField(Join(rest, <<" ", "-", " ">>))
                    ELSE <<>>
       IN  IF resolved.title = <<>> \/ resolved.artist = <<>> THEN None
           ELSE Some([title |-> resolved.title, artist |-> resolved.artist,
                      album |-> album])

\* the places p of s where \s+by\s+(.+)$ matches (case-insensitive); the line
\* holds no line terminator, so the dot matches every character of it
ByMatchesAt(s, p) ==
  LET w1 == RunLen(s, p, SpaceChars)
      q  == p + w1
      w2 == RunLen(s, q + 2, SpaceChars)
  IN  /\ w1 >= 1
      /\ q + 1 <= Len(s)
      /\ LowerChar(s[q]) = "b" /\ LowerChar(s[q + 1]) = "y"
      /\ w2 >= 1
      /\ q + 2 + w2 <= Len(s)

\* cleaned.match(/^(.*?)\s+by\s+(.+)$/i): the two groups, or None
ByMatch(s) ==
  LET places == {p \in 1..Len(s) : ByMatchesAt(s, p)}
  IN  IF places = {} THEN None
      ELSE LET p == Min(places)
               q == p + RunLen(s, p, SpaceChars)
               r == q + 2 + RunLen(s, q + 2, SpaceChars)
           IN  Some(<<Prefix(s, p - 1), Suffix(s, r)>>)

parseTrackLine(line) ==
  LET cleaned == stripLinePrefix(line)
      byMatch == ByMatch(cleaned)
      dashParts == splitParts(cleaned, "dash")
      pipeParts == splitParts(cleaned, "pipe")
      commaParts == splitParts(cleaned, "comma")
  IN  IF cleaned = <<>> THEN None
      ELSE IF byMatch # None
        THEN LET title == cleanField(byMatch[1][1])
                 artist == cleanField(byMatch[1][2])
             IN  IF title = <<>> \/ artist = <<>> THEN None
                 ELSE Some([title |-> title, artist |-> artist, album |-> <<>>])
      ELSE IF includes(cleaned, <<"\t">>)
        THEN buildFromParts(splitParts(cleaned, "tabs"))
      ELSE IF Len(dashParts) >= 2 THEN buildFromParts(dashParts)
      ELSE IF Len(pipeParts) >= 2 THEN buildFromParts(pipeParts)
      ELSE IF Len(commaParts) = 2 THEN buildFromParts(commaParts)
      ELSE None

\* the strings made of at most n tokens of the vocabulary V
RECURSIVE TokenStrings(_, _)
TokenStrings(V, n) ==
  IF n = 0 THEN {<<>>}
  ELSE LET shorter == TokenStrings(V, n - 1)
       IN  shorter \cup {s \o t : s \in shorter, t \in V}

----------------------------------------------------------------------------
(* parseTrackLine applied to a candidate line                              *)

MaxLineTokens == 4
LineTokens ==
  { <<"a">>, <<"c">>, <<" ","B","y"," ">>, <<"\t">>, <<" ","-"," ">>,
    <<"|">>, <<",">>, <<"'">>, <<"1","."," ">> }

InitLine ==
  /\ input \in TokenStrings(LineTokens, MaxLineTokens)
  /\ output = <<>> /\ output2 = <<>> /\ phase = "start"
  /\ FetchIdle /\ MkIdle /\ AppIdle

ParseLine ==
  /\ phase = "start"
  /\ output' = parseTrackLine(input)
  /\ phase' = "done"
  /\ UNCHANGED <<input, output2, fetchVars, mkVars, appVars>>

NextLine == ParseLine
SpecLine == InitLine /\ [][NextLine]_vars

\* the five strategies of the parser, each on its own: its track, or None
ByStrategy(cleaned) ==
  LET m == ByMatch(cleaned)
  IN  IF m # None /\ cleanField(m[1][1]) # <<>> /\ cleanField(m[1][2]) # <<>>
        THEN Some([title |-> cleanField(m[1][1]),
                   artist |-> cleanField(m[1][2]), album |-> <<>>])
        ELSE None
TabStrategy(cleaned) ==
  IF includes(cleaned, <<"\t">>) /\ Len(splitParts(cleaned, "tabs")) >= 2
    THEN buildFromParts(splitParts(cleaned, "tabs")) ELSE None
DashStrategy(cleaned) ==
  IF Len(splitParts(cleaned, "dash")) >= 2
    THEN buildFromParts(splitParts(cleaned, "dash")) ELSE None
PipeStrategy(cleaned) ==
  IF Len(splitParts(cleaned, "pipe")) >= 2
    THEN buildFromParts(splitParts(cleaned, "pipe")) ELSE None
CommaStrategy(cleaned) ==
  IF Len(splitParts(cleaned, "comma")) = 2
    THEN buildFromParts(splitParts(cleaned, "comma")) ELSE None

FirstSuccess(cleaned) ==
  LET tries == << ByStrategy(cleaned), TabStrategy(cleaned),
                  DashStrategy(cleaned), PipeStrategy(cleaned),
                  CommaStrategy(cleaned) >>
      hits == SelectSeq(tries, LAMBDA t : t # None)
  IN  IF hits = <<>> THEN None ELSE hits[1]

\* C7: the result of parseTrackLine is the result of the first of the five
\* strategies (by, tab, dash, pipe, two-part comma) that succeeds on the
\* prefix-stripped line, and it is a failure only when none succeeds.
C7_FirstSuccessWins ==
  phase = "done" => output = FirstSuccess(stripLinePrefix(input))

----------------------------------------------------------------------------
(* scoreTitle applied to a fragment                                        *)

MaxScoreTokens == 3
ScoreTokens ==
  { <<"a">>, <<"R","e","m","i","x">>, <<"l","i","v","e">>, <<"f","t">>,
    <<"(">>, <<")">>, <<"[">>, <<"]">>, <<"{">>, <<"}">>,
    <<"1","9">>, <<"2","0","2","4">>, <<" ">> }

InitScore ==
  /\ input \in TokenStrings(ScoreTokens, MaxScoreTokens)
  /\ output = 0 /\ output2 = <<>> /\ phase = "start"
  /\ FetchIdle /\ MkIdle /\ AppIdle

ScoreTitle ==
  /\ phase = "start"
  /\ output' = scoreTitle(input)
  /\ phase' = "done"
  /\ UNCHANGED <<input, output2, fetchVars, mkVars, appVars>>

NextScore == ScoreTitle
SpecScore == InitScore /\ [][NextScore]_vars

\* C9: the title score is 2 for every hint keyword the fragment contains
\* (case-insensitive), plus 1 if it contains one of ( ) [ ] {, plus 1 if it
\* contains four digits in a row.
C9_TitleScore ==
  phase = "done" =>
    output =
      2 * Cardinality({h \in 1..Len(TITLE_HINTS) :
                         includes(toLowerCase(input), TITLE_HINTS[h])})
      + (IF \E i \in 1..Len(input) : input[i] \in {"(", ")", "[", "]", "{"}
           THEN 1 ELSE 0)
      + (IF \E i \in 1..(Len(input) - 3) :
              \A j \in i..(i + 3) : input[j] \in DigitChars
           THEN 1 ELSE 0)

----------------------------------------------------------------------------
(* resolveTitleArtist applied to two fragments                             *)

MaxFragmentTokens == 2
FragmentTokens ==
  { <<"a">>, <<"M","i","x">>, <<"(">>, <<"&">>, <<" ","x"," ">>,
    <<"1","9","9","9">> }

InitResolve ==
  /\ input \in TokenStrings(FragmentTokens, MaxFragmentTokens)
                \X TokenStrings(FragmentTokens, MaxFragmentTokens)
  /\ output = <<>> /\ output2 = <<>> /\ phase = "start"
  /\ FetchIdle /\ MkIdle /\ AppIdle

Resolve ==
  /\ phase = "start"
  /\ output' = resolveTitleArtist(input[1], input[2])
  /\ phase' = "done"
  /\ UNCHANGED <<input, output2, fetchVars, mkVars, appVars>>

NextResolve == Resolve
SpecResolve == InitResolve /\ [][NextResolve]_vars

\* the rule of the decision table that applies to the title scores tl, tr and
\* the artist scores al, ar of the left and the right fragment
DecisionRule(tl, tr, al, ar) ==
  CASE tl > tr /\ ar >= al -> 1
    [] ~(tl > tr /\ ar >= al) /\ tr > tl /\ al >= ar -> 2
    [] ~(tl > tr /\ ar >= al) /\ ~(tr > tl /\ al >= ar) /\ ar > al -> 3
    [] ~(tl > tr /\ ar >= al) /\ ~(tr > tl /\ al >= ar) /\ ~(ar > al)
       /\ al > ar -> 4
    [] OTHER -> 5

InputRule ==
  DecisionRule(scoreTitle(input[1]), scoreTitle(input[2]),
               scoreArtist(input[1]), scoreArtist(input[2]))

\* C8: the title is the left fragment under rules 1, 3 and 5 and the right
\* fragment under rules 2 and 4, the other fragment is the artist, and a tie
\* of both title scores and both artist scores makes the left one the title.
C8_DecisionTable ==
  phase = "done" =>
    \E tl \in {scoreTitle(input[1])}, tr \in {scoreTitle(input[2])},
       al \in {scoreArtist(input[1])}, ar \in {scoreArtist(input[2])} :
      \E rule \in {DecisionRule(tl, tr, al, ar)} :
        /\ rule \in {1, 3, 5}
             => output = [title |-> input[1], artist |-> input[2]]
        /\ rule \in {2, 4}
             => output = [title |-> input[2], artist |-> input[1]]
        /\ (tl = tr /\ al = ar) => output.title = input[1]

\* the right fragment has the higher artist score and the higher title score:
\* rule 1 and rule 2 do not apply, rule 3 makes the left fragment the title
C8_Witness ==
  /\ phase = "done" /\ InputRule = 3
  /\ scoreTitle(input[2]) > scoreTitle(input[1])
  /\ output.title = input[1] /\ input[1] # input[2]

----------------------------------------------------------------------------
(* The link recognizer                                                     *)

\* the literal strings of the recognizer and the deriver
StrHttp ==
  <<"h","t","t","p",":","/","/">>
StrHttps ==
  <<"h","t","t","p","s",":","/","/">>
StrEmbedPlaylistPath ==
  <<"/","e","m","b","e","d","/","p","l","a","y","l","i","s","t","/">>
StrPlaylistPath ==
  <<"/","p","l","a","y","l","i","s","t","/">>
StrSpotifyUri ==
  <<"s","p","o","t","i","f","y",":","p","l","a","y","l","i","s","t",
    ":">>
StrSpotifyCom ==
  <<"s","p","o","t","i","f","y",".","c","o","m">>
StrMyMigratedPlaylist ==
  <<"M","y"," ","M","i","g","r","a","t","e","d"," ","P","l","a","y",
    "l","i","s","t">>
StrPlaylist ==
  <<"p","l","a","y","l","i","s","t">>

AlnumChars ==
  DigitChars \cup {UpperLetters[i] : i \in 1..26} \cup {LowerLetters[i] : i \in 1..26}
LetterChars == {UpperLetters[i] : i \in 1..26} \cup {LowerLetters[i] : i \in 1..26}

\* s holds t at the place i
HasAt(s, i, t) == i + Len(t) - 1 <= Len(s) /\ SubSeq(s, i, i + Len(t) - 1) = t
\* the first place at or after i where s holds a character of C, Len(s) + 1
\* when there is none
FirstOf(s, i, C) ==
  Min({j \in i..Len(s) : s[j] \in C} \cup {Len(s) + 1})

\* /^https?:\/\/\S+$/i.test(value.trim())
isStandaloneUrl(value) ==
  LET t == trim(value)
      l == toLowerCase(t)
      n == IF HasAt(l, 1, StrHttp) THEN 7
           ELSE IF HasAt(l, 1, StrHttps) THEN 8 ELSE 0
  IN  /\ n > 0
      /\ Len(t) > n
      /\ \A j \in (n + 1)..Len(t) : ~IsSpace(t[j])

\* !/\s/.test(value.trim())
isSingleToken(value) ==
  LET t == trim(value) IN \A j \in 1..Len(t) : ~IsSpace(t[j])

\* /^[a-z]+:\/\//i.test(trimmed)
HasScheme(t) ==
  LET n == RunLen(t, 1, LetterChars)
  IN  n >= 1 /\ HasAt(t, n + 1, <<":","/","/">>)

\* the characters a host of a URL must not hold
ForbiddenHostChars ==
  {" ", "\t", "\n", "\r", "#", "/", ":", "<", ">", "?", "@", "[", "\\", "]",
   "^", "|", "%"}

\* In the operators below a local of the code is bound by a quantifier over
\* a one-element set, so that it is computed once, as a const declaration is.

\* new URL: the host name and the port of the part of the authority that
\* follows the user information; None when the constructor throws
HostAndPort(hostport, pathname) ==
  LET colons == {j \in 1..Len(hostport) : hostport[j] = ":"}
  IN  CHOOSE r \in
        {IF \/ hostname = <<>>
            \/ \E j \in 1..Len(hostname) : hostname[j] \in ForbiddenHostChars
            \/ \E j \in 1..Len(port) : port[j] \notin DigitChars
           THEN None
           ELSE Some([hostname |-> toLowerCase(hostname),
                      pathname |-> pathname]) :
         hostname \in {IF colons = {} THEN hostport
                       ELSE Prefix(hostport, Max(colons) - 1)},
         port \in {IF colons = {} THEN <<>>
                   ELSE Suffix(hostport, Max(colons) + 1)}} : TRUE

\* new URL: the host follows the last @ of the authority
Authority(authority, pathname) ==
  LET ats == {j \in 1..Len(authority) : authority[j] = "@"}
  IN  CHOOSE r \in
        {HostAndPort(hostport, pathname) :
         hostport \in {IF ats = {} THEN authority
                       ELSE Suffix(authority, Max(ats) + 1)}} : TRUE

\* new URL(withScheme): the hostname and the pathname, or None when the
\* constructor throws. The authority runs to the first / \ ? or #, the host
\* follows the last @ of it and a port follows the last colon of the host;
\* dot segments of the path are kept as they are.
ParseUrl(withScheme) ==
  LET a == RunLen(withScheme, 1, LetterChars) + 4
      e == FirstOf(withScheme, a, {"/", "\\", "?", "#"})
      q == FirstOf(withScheme, e, {"?", "#"})
  IN  CHOOSE r \in
        {Authority(authority, pathname) :
         authority \in {SubSeq(withScheme, a, e - 1)},
         pathname \in {IF e > Len(withScheme) \/ withScheme[e] \in {"?", "#"}
                         THEN <<"/">>
                         ELSE SubSeq(withScheme, e, q - 1)}} : TRUE

normalizeSpotifyUrl(value) ==
  CHOOSE r \in
    {ParseUrl(withScheme) :
     withScheme \in {IF HasScheme(trim(value)) THEN trim(value)
                     ELSE StrHttps \o trim(value)}} : TRUE

\* the identifier that follows the path literal t at the place i of the
\* pathname, whose lower-case form is l; empty when there is none
IdAfter(pathname, l, i, t) ==
  IF HasAt(l, i, t) /\ RunLen(pathname, i + Len(t), AlnumChars) >= 1
    THEN SubSeq(pathname, i + Len(t),
                i + Len(t) - 1 + RunLen(pathname, i + Len(t), AlnumChars))
    ELSE <<>>

\* the identifier of the match that starts at the place i, empty when none
IdAt(pathname, l, i) ==
  IF IdAfter(pathname, l, i, StrEmbedPlaylistPath) # <<>>
    THEN IdAfter(pathname, l, i, StrEmbedPlaylistPath)
    ELSE IdAfter(pathname, l, i, StrPlaylistPath)

\* pathname.match(/\/(?:embed\/)?playlist\/([a-zA-Z0-9]+)/i): the identifier
PathPlaylistId(pathname) ==
  CHOOSE r \in
    {LET places == {i \in 1..Len(pathname) : IdAt(pathname, l, i) # <<>>}
     IN  IF places = {} THEN None
         ELSE Some(IdAt(pathname, l, Min(places))) :
     l \in {toLowerCase(pathname)}} : TRUE

\* s.endsWith(t)
endsWith(s, t) == Len(s) >= Len(t) /\ Suffix(s, Len(s) - Len(t) + 1) = t

\* lines 127-133 of extractSpotifyPlaylistId, from the parsed url on
IdOfUrl(hostname, pathname) ==
  IF ~endsWith(hostname, StrSpotifyCom) THEN None
  ELSE PathPlaylistId(pathname)

\* lines 113-133 of extractSpotifyPlaylistId, from the trimmed value on
IdOfTrimmed(trimmed) ==
  LET uriId == Suffix(trimmed, 18)
  IN  IF trimmed = <<>> \/ ~isSingleToken(trimmed) THEN None
      ELSE IF /\ HasAt(trimmed, 1, StrSpotifyUri)
              /\ uriId # <<>>
              /\ \A j \in 1..Len(uriId) : uriId[j] \in AlnumChars
        THEN Some(uriId)
      ELSE CHOOSE r \in
             {IF url = None THEN None
              ELSE IdOfUrl(url[1].hostname, url[1].pathname) :
              url \in {normalizeSpotifyUrl(trimmed)}} : TRUE

extractSpotifyPlaylistId(value) ==
  CHOOSE r \in {IdOfTrimmed(trimmed) : trimmed \in {trim(value)}} : TRUE

----------------------------------------------------------------------------
(* The playlist-name deriver and parsePlaylistData                         *)

\* "My Migrated Playlist"
DefaultPlaylistName == StrMyMigratedPlaylist

MsgImage       == "Image parsing is not supported. Paste a text track list instead."
MsgEmptyInput  == "Paste a track list to continue."
MsgUnsupported ==
  "Only Spotify playlist links are supported. Paste the track list instead."
MsgNoLines     == "No tracks found. Try one track per line."
MsgNoParsed    ==
  "No tracks found. Use formats like 'Song - Artist' or 'Artist - Song'."

\* lines[0].match(/^playlist\s*[:\-]\s*(.+)$/i): the captured group, or None
HeaderMatch(line) ==
  LET a == RunLen(line, 9, SpaceChars)
      p == 9 + a
      b == RunLen(line, p + 1, SpaceChars)
      rest == Suffix(line, p + 1 + b)
      captured == IF rest # <<>> THEN rest
                  ELSE IF b >= 1 THEN <<line[Len(line)]>> ELSE <<>>
  IN  IF /\ Len(line) >= 8
         /\ toLowerCase(Prefix(line, 8)) = StrPlaylist
         /\ p <= Len(line)
         /\ line[p] \in {":", "-"}
         /\ captured # <<>>
         /\ \A j \in 1..Len(captured) : captured[j] \notin {"\n", "\r"}
        THEN Some(captured)
        ELSE None

\* a faulty variant of derivePlaylistName that keeps the header line among the tracks
derivePlaylistName_KeepHeader(lines, parsedTracks) ==
  IF lines = <<>> THEN [name |-> DefaultPlaylistName, startIndex |-> 0]
  ELSE IF HeaderMatch(lines[1]) # None
    THEN [name |-> IF cleanField(HeaderMatch(lines[1])[1]) # <<>>
                     THEN cleanField(HeaderMatch(lines[1])[1])
                     ELSE DefaultPlaylistName,
          startIndex |-> 0]
  ELSE IF /\ parsedTracks[1] = None
          /\ \E k \in 2..Len(parsedTracks) : parsedTracks[k] # None
    THEN [name |-> IF cleanField(lines[1]) # <<>> THEN cleanField(lines[1])
                   ELSE DefaultPlaylistName,
          startIndex |-> 1]
  ELSE [name |-> DefaultPlaylistName, startIndex |-> 0]

\* a faulty variant of derivePlaylistName that never takes a first line that
\* is no header as the name
derivePlaylistName_NoTitleLine(lines, parsedTracks) ==
  IF lines = <<>> THEN [name |-> DefaultPlaylistName, startIndex |-> 0]
  ELSE IF HeaderMatch(lines[1]) # None
    THEN [name |-> IF cleanField(HeaderMatch(lines[1])[1]) # <<>>
                     THEN cleanField(HeaderMatch(lines[1])[1])
                     ELSE DefaultPlaylistName,
          startIndex |-> 1]
  ELSE [name |-> DefaultPlaylistName, startIndex |-> 0]

derivePlaylistName(lines, parsedTracks) ==
  IF lines = <<>> THEN [name |-> DefaultPlaylistName, startIndex |-> 0]
  ELSE IF HeaderMatch(lines[1]) # None
    THEN [name |-> IF cleanField(HeaderMatch(lines[1])[1]) # <<>>
                     THEN cleanField(HeaderMatch(lines[1])[1])
                     ELSE DefaultPlaylistName,
          startIndex |-> 1]
  ELSE IF /\ parsedTracks[1] = None
          /\ \E k \in 2..Len(parsedTracks) : parsedTracks[k] # None
    THEN [name |-> IF cleanField(lines[1]) # <<>> THEN cleanField(lines[1])
                   ELSE DefaultPlaylistName,
          startIndex |-> 1]
  ELSE [name |-> DefaultPlaylistName, startIndex |-> 0]

\* the locals of the text path of parsePlaylistData
TextLines(text) == splitCandidateLines(text)
ParsedTracks(lines) == [k \in 1..Len(lines) |-> parseTrackLine(lines[k])]

\* parsedTracks.slice(startIndex).filter(Boolean)
KeptTracks(parsedTracks, startIndex) ==
  LET kept == SubSeq(parsedTracks, startIndex + 1, Len(parsedTracks))
      found == SelectSeq(kept, LAMBDA t : t # None)
  IN  [k \in 1..Len(found) |-> found[k][1]]

\* a faulty variant of ManifestFrom that returns a manifest without tracks
ManifestFrom_AllowEmpty(nm, trackList) ==
  [kind |-> "manifest", name |-> nm, tracks |-> WithIds(trackList)]

\* the end of parsePlaylistData: no track is an error, else the manifest
ManifestFrom(nm, trackList) ==
  IF trackList = <<>> THEN [kind |-> "error", message |-> MsgNoParsed]
  ELSE [kind |-> "manifest", name |-> nm, tracks |-> WithIds(trackList)]

\* parsePlaylistData from the parsed lines on; each local is computed once
\* and bound, as the const declarations of the code do
ParseTracks(lines, parsedTracks) ==
  LET derived == derivePlaylistName(lines, parsedTracks)
  IN  CHOOSE r \in {ManifestFrom(derived.name, trackList) :
                      trackList \in {KeptTracks(parsedTracks,
                                                derived.startIndex)}} : TRUE

\* parsePlaylistData from line 472 on, with the candidate lines
ParseLines(lines) ==
  IF lines = <<>> THEN [kind |-> "error", message |-> MsgNoLines]
  ELSE CHOOSE r \in {ParseTracks(lines, parsedTracks) :
                       parsedTracks \in {ParsedTracks(lines)}} : TRUE

\* parsePlaylistData from line 458 on, with the trimmed text
ParseText(text) ==
  IF text = <<>> THEN [kind |-> "error", message |-> MsgEmptyInput]
  ELSE CHOOSE r \in
         {IF spotifyPlaylistId # None
            THEN [kind |-> "fetch", id |-> spotifyPlaylistId[1]]
          ELSE IF isStandaloneUrl(text)
            THEN [kind |-> "error", message |-> MsgUnsupported]
          ELSE CHOOSE q \in {ParseLines(lines) :
                              lines \in {TextLines(text)}} : TRUE :
          spotifyPlaylistId \in {extractSpotifyPlaylistId(text)}} : TRUE

\* parsePlaylistData(input): an error, a manifest, or the call of
\* fetchSpotifyPlaylist with the recognized identifier
parsePlaylistData(in) ==
  IF in.type # "string" THEN [kind |-> "error", message |-> MsgImage]
  ELSE CHOOSE r \in {ParseText(text) : text \in {trim(in.data)}} : TRUE

\* the locals lines and { name, startIndex } of a call that reached line 477
TextLocals(text) ==
  CHOOSE r \in
    {[path |-> "text", lines |-> lines,
      derived |-> derivePlaylistName(lines, ParsedTracks(lines))] :
       lines \in {TextLines(text)}} : TRUE

----------------------------------------------------------------------------
(* parsePlaylistData applied to a paste                                    *)

MaxParseTokens == 4
ParseTokens ==
  { <<"P","l","a","y","l","i","s","t",":">>,
    <<"p","l","a","y","L","I","S","T"," ","-">>,
    <<"'">>, <<"\n">>, <<"c">>, <<"a"," ","-"," ","b">>,
    <<"s","p","o","t","i","f","y",".","c","o","m","/",
      "p","l","a","y","l","i","s","t","/","x","1">> }

InitParse ==
  /\ input \in {[type |-> "string", data |-> t] :
                  t \in TokenStrings(ParseTokens, MaxParseTokens)}
               \cup {[type |-> "image", data |-> <<>>]}
  /\ output = <<>> /\ output2 = <<>> /\ phase = "start"
  /\ FetchIdle /\ MkIdle /\ AppIdle

\* the call of parsePlaylistData; output2 keeps the locals of the text path
ParsePlaylistData ==
  /\ phase = "start"
  /\ output' = parsePlaylistData(input)
  /\ output2' =
       IF output'.kind = "manifest" \/ (output'.kind = "error"
                                        /\ output'.message = MsgNoParsed)
         THEN TextLocals(trim(input.data))
         ELSE [path |-> "none"]
  /\ phase' = "done"
  /\ UNCHANGED <<input, fetchVars, mkVars, appVars>>

NextParse == ParsePlaylistData
SpecParse == InitParse /\ [][NextParse]_vars

\* the text path ran and its first candidate line matches the header pattern
HeaderCase ==
  /\ phase = "done" /\ output2.path = "text"
  /\ HeaderMatch(output2.lines[1]) # None

\* the tracks of the candidate lines after the first one
TracksAfterFirst ==
  LET later == SubSeq(output2.lines, 2, Len(output2.lines))
      parsed == SelectSeq([k \in 1..Len(later) |-> parseTrackLine(later[k])],
                          LAMBDA t : t # None)
  IN  WithIds([k \in 1..Len(parsed) |-> parsed[k][1]])

\* C10 as stated: when the first candidate line matches the header pattern,
\* the name is the normalized captured text, the start index is 1 and the
\* first line gives no track.
C10_HeaderNames ==
  HeaderCase =>
    /\ output2.derived.name = cleanField(HeaderMatch(output2.lines[1])[1])
    /\ output2.derived.startIndex = 1
    /\ output.kind = "manifest" => output.tracks = TracksAfterFirst

\* C10 as amended: when the first candidate line matches the header pattern,
\* the name is the normalized captured text, or the default name when that
\* text normalizes to the empty string; the start index is 1 and the first
\* line gives no track.
C10_HeaderNamesOrDefault ==
  HeaderCase =>
    /\ output2.derived.name =
         IF cleanField(HeaderMatch(output2.lines[1])[1]) # <<>>
           THEN cleanField(HeaderMatch(output2.lines[1])[1])
           ELSE DefaultPlaylistName
    /\ output2.derived.startIndex = 1
    /\ output.kind = "manifest" =>
         /\ output.name = output2.derived.name
         /\ output.tracks = TracksAfterFirst

\* a header line followed by one track line: the name is the captured text
\* and the manifest holds exactly one track
C10_Witness ==
  /\ HeaderCase
  /\ Len(output2.lines) = 2
  /\ output.kind = "manifest"
  /\ output.name = <<"c">>
  /\ Len(output.tracks) = 1

----------------------------------------------------------------------------
(* The first line that is no header                                        *)

\* the text path ran and its first candidate line is no header
NonHeaderCase ==
  /\ phase = "done" /\ output2.path = "text"
  /\ HeaderMatch(output2.lines[1]) = None

\* the first candidate line did not parse and a later one did
FirstLineIsTitle ==
  LET parsed == ParsedTracks(output2.lines)
  IN  /\ parsed[1] = None
      /\ \E k \in 2..Len(parsed) : parsed[k] # None

\* the tracks of all candidate lines
TracksOfAllLines ==
  LET parsed == SelectSeq(ParsedTracks(output2.lines), LAMBDA t : t # None)
  IN  WithIds([k \in 1..Len(parsed) |-> parsed[k][1]])

\* C11 as stated: without a header, when the first line did not parse and a
\* later line did, the name is the normalized first line and the first line
\* is excluded; in every other case the name is the default and no line is
\* excluded.
C11_FirstLineNames ==
  NonHeaderCase =>
    IF FirstLineIsTitle
      THEN /\ output2.derived.name = cleanField(output2.lines[1])
           /\ output2.derived.startIndex = 1
      ELSE /\ output2.derived.name = DefaultPlaylistName
           /\ output2.derived.startIndex = 0

\* C11 as amended: without a header, when the first line did not parse and
\* a later line did, the first line is excluded and the name is the
\* normalized first line, or the default name when the first line normalizes
\* to the empty string; in every other case the name is the default and no
\* line is excluded.
C11_FirstLineNamesOrDefault ==
  NonHeaderCase =>
    IF FirstLineIsTitle
      THEN /\ output2.derived.name =
                IF cleanField(output2.lines[1]) # <<>>
                  THEN cleanField(output2.lines[1])
                  ELSE DefaultPlaylistName
           /\ output2.derived.startIndex = 1
           /\ output.kind = "manifest"
           /\ output.name = output2.derived.name
           /\ output.tracks = TracksAfterFirst
      ELSE /\ output2.derived.name = DefaultPlaylistName
           /\ output2.derived.startIndex = 0
           /\ output.kind = "manifest" =>
                /\ output.name = DefaultPlaylistName
                /\ output.tracks = TracksOfAllLines

\* a free-text first line followed by a track line: the first line is the
\* name and the manifest holds the one track of the second line
C11_Witness ==
  /\ NonHeaderCase /\ FirstLineIsTitle
  /\ output2.lines[1] = <<"c">>
  /\ output.kind = "manifest" /\ output.name = <<"c">>
  /\ Len(output.tracks) = 1

----------------------------------------------------------------------------
(* parsePlaylistData applied to links and to text that holds links         *)

MaxRouteTokens == 3
StrPlaylistLink ==
  <<"s","p","o","t","i","f","y",".","c","o","m","/",
    "p","l","a","y","l","i","s","t","/","x","1">>
RouteTokens ==
  { <<"h","t","t","p",":","/","/","e">>,
    <<"H","T","T","P","S",":","/","/">>,
    <<"f","t","p",":","/","/">>,
    StrPlaylistLink,
    StrSpotifyUri,
    <<" ">>, <<"c">>, <<"a"," ","-"," ","b">> }

InitRoute ==
  /\ input \in {[type |-> "string", data |-> t] :
                  t \in TokenStrings(RouteTokens, MaxRouteTokens)}
  /\ output = <<>> /\ output2 = <<>> /\ phase = "start"
  /\ FetchIdle /\ MkIdle /\ AppIdle

NextRoute == ParsePlaylistData
SpecRoute == InitRoute /\ [][NextRoute]_vars

\* the text is one whitespace-free URL: a scheme of letters, ://, and more
IsUrl(text) ==
  LET n == RunLen(text, 1, LetterChars)
  IN  /\ n >= 1
      /\ HasAt(text, n + 1, <<":", "/", "/">>)
      /\ Len(text) > n + 3
      /\ \A j \in 1..Len(text) : ~IsSpace(text[j])

\* the call took the remote path: the fetch runs and no line was parsed
RemotePath(id) ==
  output = [kind |-> "fetch", id |-> id] /\ output2.path = "none"

\* the call failed with the unsupported-link error and no line was parsed
UnsupportedPath ==
  /\ output = [kind |-> "error", message |-> MsgUnsupported]
  /\ output2.path = "none"

\* the call took the text path: the lines were parsed and no fetch runs
TextPath ==
  /\ output2.path = "text"
  /\ \/ output.kind = "manifest"
     \/ output = [kind |-> "error", message |-> MsgNoParsed]

\* C12: a non-blank text goes down exactly one path: the remote fetch when
\* the link recognizer returns an identifier, the unsupported-link error
\* when it is one whitespace-free URL the recognizer does not know, the text
\* parser otherwise, and always the text parser when it holds interior
\* whitespace.
C12_Routing ==
  (phase = "done" /\ input.type = "string" /\ trim(input.data) # <<>>) =>
    LET text == trim(input.data)
        id == extractSpotifyPlaylistId(text)
    IN  /\ id # None => RemotePath(id[1])
        /\ (id = None /\ IsUrl(text)) => UnsupportedPath
        /\ (id = None /\ ~IsUrl(text)) => TextPath
        /\ (\E j \in 1..Len(text) : IsSpace(text[j])) => TextPath

----------------------------------------------------------------------------
(* Ingestion: parsePlaylistData on a pasted track list, or                 *)
(* fetchSpotifyPlaylist on a playlist                                      *)

MaxIngestLines == 4
\* a header prefix and five lines: two that parse, a word, a lone quote, and
\* a by line whose title is a lone quote
IngestTokens ==
  { <<"P","l","a","y","l","i","s","t",":">>,
    <<"a"," ","-"," ","b","\n">>,
    <<"d","|","e","\n">>,
    <<"c","\n">>,
    <<"'","\n">>,
    <<"'"," ","b","y"," ","b","\n">> }

InitIngestText ==
  /\ input \in {[type |-> "string", data |-> t] :
                  t \in TokenStrings(IngestTokens, MaxIngestLines)}
  /\ output = <<>> /\ output2 = <<>> /\ phase = "start"
  /\ FetchIdle /\ MkIdle /\ AppIdle

InitIngest == InitIngestText \/ InitFetch
NextIngest == ParsePlaylistData \/ NextFetch
SpecIngest == InitIngest /\ [][NextIngest]_vars

\* parsePlaylistData returned from its text path
TextDone == phase = "done" /\ output2.path = "text"

\* the places after the start index whose candidate line parses
ParsedPlaces ==
  {k \in (output2.derived.startIndex + 1)..Len(output2.lines) :
     parseTrackLine(output2.lines[k]) # None}

\* fetchSpotifyPlaylist got every page and left its loop
PagesDone ==
  /\ fpc = "done" /\ lastOutcome[1] = "ok"
  /\ pageNexts[Len(pageNexts)] \in {NULL, ABSENT}

\* the places of the items that have a track with a title and an artist
KeptItems ==
  {k \in 1..Len(items) :
     /\ ItemTrack(items[k]) # None
     /\ RemoteTrack(ItemTrack(items[k])[1]).title # <<>>
     /\ RemoteTrack(ItemTrack(items[k])[1]).artist # <<>>}

\* the remote path fails with the no-tracks error exactly when no item is
\* kept, and returns a manifest otherwise
RemoteNoTracksRule ==
  PagesDone =>
    /\ KeptItems = {} <=> fresult = [kind |-> "error", message |-> MsgNoTracks]
    /\ KeptItems # {} <=> fresult.kind = "manifest"

\* C13 as stated: ingestion fails with the no-tracks error exactly when it
\* has no valid track: on the text path when no line after the start index
\* parses, on the remote path when no item is kept; and when at least one
\* line parses, the lines that do not parse are left out and no error is
\* raised.
C13_NoTracksIffNone ==
  /\ TextDone =>
       /\ ParsedPlaces = {}
            <=> output = [kind |-> "error", message |-> MsgNoParsed]
       /\ (\E k \in 1..Len(output2.lines) :
             parseTrackLine(output2.lines[k]) # None)
            => /\ output.kind = "manifest"
               /\ Len(output.tracks) = Cardinality(ParsedPlaces)
  /\ RemoteNoTracksRule

\* C13 as amended: the same, but no error is raised when at least one line
\* after the start index parses; a lone header line that also parses as a
\* track is excluded and gives the no-tracks error.
C13_NoTracksIffNoneAfterStart ==
  /\ TextDone =>
       /\ ParsedPlaces = {}
            <=> output = [kind |-> "error", message |-> MsgNoParsed]
       /\ ParsedPlaces # {}
            => /\ output.kind = "manifest"
               /\ Len(output.tracks) = Cardinality(ParsedPlaces)
  /\ RemoteNoTracksRule

\* three lines of which the middle one does not parse gave a manifest of two
\* tracks
C13_Witness ==
  /\ TextDone /\ output.kind = "manifest"
  /\ Len(output2.lines) = 3 /\ ParsedPlaces = {1, 3}
  /\ Len(output.tracks) = 2

\* the string has a character that is no whitespace
NotBlank(str) == \E j \in 1..Len(str) : ~IsSpace(str[j])

\* every track of the list has a title and an artist
AllNamed(tracks) ==
  \A k \in 1..Len(tracks) :
    NotBlank(tracks[k].title) /\ NotBlank(tracks[k].artist)

\* the line is of the shape <title> by <artist> and one of the two is made
\* of quote characters only
ByLineWithoutName(line) ==
  \E p \in 1..Len(line) :
    /\ ByMatchesAt(line, p)
    /\ \/ \A j \in 1..(p - 1) : IsQuote(line[j])
       \/ \A j \in (p + 4)..Len(line) : IsQuote(line[j])

\* C14: every track of every manifest, from a paste or from a playlist, has
\* a non-empty title and a non-empty artist; a line or an item whose title or
\* artist is empty after normalization is in no manifest.
C14_TracksAreNamed ==
  /\ (phase = "done" /\ output.kind = "manifest") =>
       /\ AllNamed(output.tracks)
       /\ Len(output.tracks) <=
            Cardinality({k \in 1..Len(output2.lines) :
                           ~ByLineWithoutName(output2.lines[k])})
  /\ fresult.kind = "manifest" =>
       /\ AllNamed(fresult.tracks)
       /\ Len(fresult.tracks) = Cardinality(KeptItems)

\* a paste with a by line whose title normalizes to nothing gave a manifest
\* of the other two lines
C14_Witness ==
  /\ phase = "done" /\ output.kind = "manifest"
  /\ Len(output2.lines) = 3 /\ Len(output.tracks) = 2
  /\ ByLineWithoutName(output2.lines[2])

\* the members of a set of numbers, in increasing order
Ascending(S) ==
  [k \in 1..Cardinality(S) |->
     CHOOSE x \in S : Cardinality({y \in S : y < x}) = k - 1]

\* the track at place k carries the identifier k - 1
NumberedFromZero(tracks) == \A k \in 1..Len(tracks) : tracks[k].id = k - 1

\* C15: in every manifest the tracks are the parsed lines, or the kept
\* items, in the order of their source, and the track at position i, counted
\* from 0, carries the identifier i.
C15_OrderAndIds ==
  /\ (phase = "done" /\ output.kind = "manifest") =>
       LET places == Ascending(ParsedPlaces)
       IN  /\ Len(output.tracks) = Len(places)
           /\ NumberedFromZero(output.tracks)
           /\ \A k \in 1..Len(places) :
                LET t == parseTrackLine(output2.lines[places[k]])[1]
                IN  /\ output.tracks[k].title = t.title
                    /\ output.tracks[k].artist = t.artist
                    /\ output.tracks[k].album = t.album
  /\ fresult.kind = "manifest" =>
       LET places == Ascending(KeptItems)
       IN  /\ items = ConcatPages(pageItems)
           /\ Len(fresult.tracks) = Len(places)
           /\ NumberedFromZero(fresult.tracks)
           /\ \A k \in 1..Len(places) :
                LET t == RemoteTrack(ItemTrack(items[places[k]])[1])
                IN  /\ fresult.tracks[k].title = t.title
                    /\ fresult.tracks[k].artist = t.artist
                    /\ fresult.tracks[k].album = t.album

\* two pages, the first with an item without a track: the manifest has the
\* two kept tracks in page order, numbered 0 and 1
C15_Witness ==
  /\ fresult.kind = "manifest" /\ Len(fresult.tracks) = 2
  /\ Len(pageItems) = 2 /\ KeptItems = {2, 3}
  /\ fresult.tracks[1].title = <<"b">> /\ fresult.tracks[2].title = <<"a">>
  /\ fresult.tracks[1].id = 0 /\ fresult.tracks[2].id = 1

----------------------------------------------------------------------------
(* JSON values of the MusicKit replies and the JavaScript operators the    *)
(* catalog calls apply to them                                             *)

JNull == [kind |-> "null"]
JUndefined == [kind |-> "undefined"]
JStr(s) == [kind |-> "string", text |-> s]
JNum(n) == [kind |-> "number", num |-> n]
JArr(es) == [kind |-> "array", elems |-> es]
JObj(ps) == [kind |-> "object", props |-> ps]

IsNullish(v) == v.kind \in {"null", "undefined"}
\* Array.isArray
IsArray(v) == v.kind = "array"
\* v?.k; the plain access v.k is the same value when v is not nullish and
\* throws a TypeError when it is
Get(v, k) ==
  IF v.kind = "object" /\ k \in DOMAIN v.props THEN v.props[k]
  ELSE JUndefined
\* a ?? b
Coalesce(a, b) == IF IsNullish(a) THEN b ELSE a
\* the truthiness of a value
Truthy(v) ==
  CASE IsNullish(v) -> FALSE
    [] v.kind = "string" -> v.text # ""
    [] v.kind = "number" -> v.num # 0
    [] OTHER -> TRUE
\* a || b
OrElse(a, b) == IF Truthy(a) THEN a ELSE b

\* the two versions of the catalog calls in the source
BuildGuarded == "part_001"
BuildPlain == "musicKitService"

TypeError == [kind |-> "throw", message |-> "TypeError"]
MsgSubscription == "SUBSCRIPTION_REQUIRED"

----------------------------------------------------------------------------
(* getAppleMusicUserPlaylists                                              *)

\* the list the call maps: the local playlists of the guarded version, the
\* reply itself in the plain version (None when the reply has no map)
PlaylistsOf(build, result) ==
  IF build = BuildGuarded
    THEN Some(IF IsArray(Get(result, "data")) THEN Get(result, "data").elems
              ELSE IF IsArray(result) THEN result.elems
              ELSE <<>>)
    ELSE IF IsArray(result) THEN Some(result.elems) ELSE None

\* the callback of map throws on this element
SummaryThrows(build, p) ==
  IF build = BuildGuarded THEN IsNullish(p)
  ELSE IsNullish(p) \/ IsNullish(Get(p, "attributes"))

\* the callback of map
PlaylistSummary(build, p) ==
  IF build = BuildGuarded
    THEN [id |-> Get(p, "id"),
          name |-> Coalesce(Get(Get(p, "attributes"), "name"),
                            JStr("Untitled Playlist")),
          total |-> Coalesce(Get(Get(p, "attributes"), "trackCount"),
                             JNum(0))]
    ELSE [id |-> Get(p, "id"),
          name |-> Get(Get(p, "attributes"), "name"),
          total |-> OrElse(Get(Get(p, "attributes"), "trackCount"),
                           JNum(0))]

\* the catch clause: the condition that rethrows as SUBSCRIPTION_REQUIRED
IsForbidden(build, e) ==
  IF build = BuildGuarded
    THEN e.status = JNum(403) \/ e.status = JStr("403")
         \/ e.httpStatusCode = JNum(403)
    ELSE e.status = JStr("403") \/ e.httpStatusCode = JNum(403)

PlaylistsCatch(build, e) ==
  IF IsForbidden(build, e) THEN [kind |-> "throw", message |-> MsgSubscription]
  ELSE [kind |-> "return", value |-> <<>>]

\* a TypeError has neither status nor httpStatusCode
TypeErrorObject == [status |-> JUndefined, httpStatusCode |-> JUndefined]

getAppleMusicUserPlaylists(in) ==
  IF ~in.authorized THEN [kind |-> "return", value |-> <<>>]
  ELSE IF in.reply.kind = "reject" THEN PlaylistsCatch(in.build, in.reply.error)
  ELSE CHOOSE r \in
    {IF playlists = None
          \/ \E i \in 1..Len(playlists[1]) :
               SummaryThrows(in.build, playlists[1][i])
        THEN PlaylistsCatch(in.build, TypeErrorObject)
        ELSE [kind |-> "return",
              value |-> [i \in 1..Len(playlists[1]) |->
                           PlaylistSummary(in.build, playlists[1][i])]] :
       playlists \in {PlaylistsOf(in.build, in.reply.value)}} : TRUE

----------------------------------------------------------------------------
(* getAppleMusicPlaylist                                                   *)

\* the local playlist
PlaylistOf(build, playlistResponse) ==
  IF build = BuildGuarded
    THEN Coalesce(Get(playlistResponse, "data"), playlistResponse)
    ELSE playlistResponse

\* the local tracksRel, once playlist.relationships did not throw
TracksRel(playlist) ==
  OrElse(Get(Get(Get(playlist, "relationships"), "tracks"), "data"),
         JArr(<<>>))

\* the callback of map throws on this element
TrackThrows(build, t) ==
  IF build = BuildGuarded THEN IsNullish(t)
  ELSE IsNullish(t) \/ IsNullish(Get(t, "attributes"))

\* the callback of map; None is the null the guarded version filters out
CatalogTrack(build, t) ==
  IF build = BuildGuarded
    THEN CHOOSE r \in
      {IF ~Truthy(title) \/ ~Truthy(artist) THEN None
       ELSE Some([id |-> Get(t, "id"), title |-> title, artist |-> artist,
                  album |-> Coalesce(Get(Get(t, "attributes"), "albumName"),
                                     JStr("")),
                  status |-> "pending"]) :
         title \in {Coalesce(Get(Get(t, "attributes"), "name"), JStr(""))},
         artist \in {Coalesce(Get(Get(t, "attributes"), "artistName"),
                              JStr(""))}} : TRUE
    ELSE Some([id |-> Get(t, "id"),
               title |-> Get(Get(t, "attributes"), "name"),
               artist |-> Get(Get(t, "attributes"), "artistName"),
               album |-> Get(Get(t, "attributes"), "albumName"),
               status |-> "pending"])

RECURSIVE CatalogTracks(_, _)
CatalogTracks(build, ts) ==
  IF ts = <<>> THEN <<>>
  ELSE CatalogTrack(build, Head(ts)) \o CatalogTracks(build, Tail(ts))

\* the name of the returned playlist, once playlist.attributes did not throw
CatalogName(build, playlist) ==
  IF build = BuildGuarded
    THEN Coalesce(Get(Get(playlist, "attributes"), "name"),
                  JStr("Apple Music Playlist"))
    ELSE Get(Get(playlist, "attributes"), "name")

getAppleMusicPlaylist(in) ==
  IF in.reply.kind = "reject" THEN [kind |-> "throw", message |-> "rejected"]
  ELSE CHOOSE r \in
    {IF /\ in.build = BuildPlain
        /\ IsNullish(playlist) \/ IsNullish(Get(playlist, "attributes"))
       THEN TypeError
     ELSE IF ~IsArray(tracksRel) THEN TypeError
     ELSE IF \E i \in 1..Len(tracksRel.elems) :
               TrackThrows(in.build, tracksRel.elems[i])
       THEN TypeError
     ELSE [kind |-> "return",
           value |-> [name |-> CatalogName(in.build, playlist),
                      tracks |-> CatalogTracks(in.build, tracksRel.elems)]] :
       playlist \in {PlaylistOf(in.build, in.reply.value)},
       tracksRel \in {TracksRel(PlaylistOf(in.build, in.reply.value))}} : TRUE

----------------------------------------------------------------------------
(* The catalog calls applied to replies of every envelope shape            *)

MaxResources == 2

TrackFull ==
  JObj([id |-> JStr("t1"),
        attributes |-> JObj([name |-> JStr("s"), artistName |-> JStr("a"),
                             albumName |-> JStr("l")])])
TrackNoArtist ==
  JObj([id |-> JStr("t2"), attributes |-> JObj([name |-> JStr("s")])])
PlaylistFull ==
  JObj([id |-> JStr("p1"),
        attributes |-> JObj([name |-> JStr("n"), trackCount |-> JNum(2)]),
        relationships |->
          JObj([tracks |-> JObj([data |-> JArr(<<TrackFull, TrackNoArtist>>)])])])
PlaylistBare == JObj([id |-> JStr("p2")])

CatalogElements == {PlaylistFull, PlaylistBare, JNull}
CatalogLists(n) == {JArr(es) : es \in SeqsUpTo(CatalogElements, n)}
\* the values of the envelope properties: lists, a resource, values that are
\* neither, and an inner envelope
EnvelopeValues ==
  CatalogLists(MaxResources) \cup {PlaylistFull, JNull, JStr("x")}
    \cup {JObj([data |-> l]) : l \in CatalogLists(1)}
    \cup {JObj([items |-> l]) : l \in CatalogLists(1)}
EnvelopeKeys == {"data", "items", "results"}
CatalogResponses ==
  CatalogLists(MaxResources) \cup {PlaylistFull, JNull, JStr("x")}
    \cup {JObj(ps) : ps \in UNION {[K -> EnvelopeValues] :
                                      K \in {S \in SUBSET EnvelopeKeys :
                                               Cardinality(S) \in {1, 2}}}}
CatalogErrors ==
  {[status |-> JNum(403), httpStatusCode |-> JUndefined],
   [status |-> JStr("403"), httpStatusCode |-> JUndefined],
   [status |-> JUndefined, httpStatusCode |-> JNum(403)],
   [status |-> JNum(500), httpStatusCode |-> JUndefined]}
CatalogReplies ==
  {[kind |-> "resolve", value |-> v] : v \in CatalogResponses}
    \cup {[kind |-> "reject", error |-> e] : e \in CatalogErrors}

InitCatalog ==
  /\ input \in [call : {"list", "get"}, build : {BuildGuarded, BuildPlain},
                authorized : BOOLEAN, reply : CatalogReplies]
  /\ output = <<>> /\ output2 = <<>> /\ phase = "start"
  /\ FetchIdle /\ MkIdle /\ AppIdle

\* output2 keeps the list the call maps, when the reply reached it
GetAppleMusicUserPlaylists ==
  /\ phase = "start" /\ input.call = "list"
  /\ output' = getAppleMusicUserPlaylists(input)
  /\ output2' =
       IF input.authorized /\ input.reply.kind = "resolve"
         THEN [reached |-> TRUE,
               playlists |-> PlaylistsOf(input.build, input.reply.value)]
         ELSE [reached |-> FALSE]
  /\ phase' = "done"
  /\ UNCHANGED <<input, fetchVars, mkVars, appVars>>

\* output2 keeps the local playlist, when the reply reached it
GetAppleMusicPlaylist ==
  /\ phase = "start" /\ input.call = "get"
  /\ output' = getAppleMusicPlaylist(input)
  /\ output2' =
       IF input.reply.kind = "resolve"
         THEN [reached |-> TRUE,
               playlist |-> PlaylistOf(input.build, input.reply.value)]
         ELSE [reached |-> FALSE]
  /\ phase' = "done"
  /\ UNCHANGED <<input, fetchVars, mkVars, appVars>>

NextCatalog == GetAppleMusicUserPlaylists \/ GetAppleMusicPlaylist
SpecCatalog == InitCatalog /\ [][NextCatalog]_vars

\* the list-playlists call got a reply and reached its mapping
ListReplied ==
  /\ phase = "done" /\ input.call = "list"
  /\ input.authorized /\ input.reply.kind = "resolve"

\* the canonical list of a reply: the first array among the value, .data,
\* .items, .data.data, .data.items and .results, else the empty list
NormalizedList(v) ==
  IF IsArray(v) THEN v.elems
  ELSE IF IsArray(Get(v, "data")) THEN Get(v, "data").elems
  ELSE IF IsArray(Get(v, "items")) THEN Get(v, "items").elems
  ELSE IF IsArray(Get(Get(v, "data"), "data"))
    THEN Get(Get(v, "data"), "data").elems
  ELSE IF IsArray(Get(Get(v, "data"), "items"))
    THEN Get(Get(v, "data"), "items").elems
  ELSE IF IsArray(Get(v, "results")) THEN Get(v, "results").elems
  ELSE <<>>

\* C16: for every reply of the list-playlists call, the list the call maps
\* is the canonical list of the reply (the value if it is an array, else
\* .data, else .items, else .data.data or .data.items, else .results, else
\* the empty list), and the call does not throw
C16_NormalizesEveryShape ==
  ListReplied =>
    /\ output.kind = "return"
    /\ output2.playlists = Some(NormalizedList(input.reply.value))

\* the get-playlist call got a reply
PlaylistReplied ==
  phase = "done" /\ input.call = "get" /\ input.reply.kind = "resolve"

\* the single resource of a reply: the first element of its canonical list,
\* else .data if it is an object that is no array, else the value, else
\* nothing
SingleResource(v) ==
  IF NormalizedList(v) # <<>> THEN NormalizedList(v)[1]
  ELSE IF Get(v, "data").kind = "object" THEN Get(v, "data")
  ELSE IF ~IsNullish(v) THEN v
  ELSE JUndefined

\* null and undefined are both nothing
SameResource(a, b) == (IsNullish(a) /\ IsNullish(b)) \/ a = b

\* C17: for every reply of the get-playlist call, the playlist the call
\* reads is the single resource of the reply: the first element of the
\* canonical list if it has one, else .data if it is an object that is no
\* array, else the reply itself, else nothing
C17_SingleResource ==
  PlaylistReplied =>
    SameResource(output2.playlist, SingleResource(input.reply.value))

----------------------------------------------------------------------------
(* verifyAppleMusicMatch                                                   *)

\* Confidences are written in hundredths: 65 is 0.65.  The sums of the
\* source are sums of doubles and differ from these by less than 1e-15; the
\* values they are compared with (0.35, 0.5, 0.95) are at least 0.05 away
\* from every sum, so that the comparisons have the same results.
verifyAppleMusicMatch_NoTrim(track) ==
  IF track.title = <<>> \/ track.artist = <<>>
    THEN [confidence |-> 0, matchFound |-> FALSE]
    ELSE [confidence |-> 65, matchFound |-> TRUE]

\* a faulty variant of RawConfidence in which a hint costs 0.25
RawConfidence_HintCostsMore(title, artist, album) ==
  65 + (IF Len(title) >= 4 THEN 10 ELSE 0)
     + (IF Len(artist) >= 3 THEN 10 ELSE 0)
     + (IF album # <<>> THEN 5 ELSE 0)
     - (IF \E h \in 1..Len(TITLE_HINTS) :
             includes(toLowerCase(title \o <<" ">> \o artist
                                    \o <<" ">> \o album),
                      TITLE_HINTS[h])
          THEN 25 ELSE 0)

\* let confidence = 0.65; ... confidence -= 0.05: the confidence before the
\* clamp, of a trimmed title, artist and album
RawConfidence(title, artist, album) ==
  65 + (IF Len(title) >= 4 THEN 10 ELSE 0)
     + (IF Len(artist) >= 3 THEN 10 ELSE 0)
     + (IF album # <<>> THEN 5 ELSE 0)
     - (IF \E h \in 1..Len(TITLE_HINTS) :
             includes(toLowerCase(title \o <<" ">> \o artist
                                    \o <<" ">> \o album),
                      TITLE_HINTS[h])
          THEN 5 ELSE 0)

verifyAppleMusicMatch(track) ==
  CHOOSE r \in
    {IF title = <<>> \/ artist = <<>>
       THEN [confidence |-> 0, matchFound |-> FALSE]
       ELSE CHOOSE q \in
         {[confidence |-> Min({95, Max({35, confidence})}),
           matchFound |-> Min({95, Max({35, confidence})}) >= 50] :
            confidence \in {RawConfidence(title, artist, album)}} : TRUE :
       title \in {trim(track.title)}, artist \in {trim(track.artist)},
       album \in {trim(track.album)}} : TRUE

MaxMatchTokens == 2
MatchTokens == { <<" ">>, <<"a","b">>, <<"M","i","x">>, <<"f","t">> }

InitMatch ==
  /\ input \in [title : TokenStrings(MatchTokens, MaxMatchTokens),
                artist : TokenStrings(MatchTokens, MaxMatchTokens),
                album : TokenStrings(MatchTokens, 1)]
  /\ output = <<>> /\ output2 = <<>> /\ phase = "start"
  /\ FetchIdle /\ MkIdle /\ AppIdle

VerifyAppleMusicMatch ==
  /\ phase = "start"
  /\ output' = verifyAppleMusicMatch(input)
  /\ phase' = "done"
  /\ UNCHANGED <<input, output2, fetchVars, mkVars, appVars>>

NextMatch == VerifyAppleMusicMatch
SpecMatch == InitMatch /\ [][NextMatch]_vars

\* the track has a title and an artist after trimming
HasTitleAndArtist == trim(input.title) # <<>> /\ trim(input.artist) # <<>>

\* C18: the confidence of a track whose trimmed title and artist are both
\* non-empty lies between 0.35 and 0.95; the confidence of a track whose
\* trimmed title or artist is empty is exactly 0 and no match is found; and
\* a match is found exactly when the confidence is at least 0.5
C18_ConfidenceRange ==
  phase = "done" =>
    /\ HasTitleAndArtist => output.confidence \in 35..95
    /\ ~HasTitleAndArtist => output.confidence = 0 /\ ~output.matchFound
    /\ output.matchFound <=> output.confidence >= 50

\* a track with a hint and short fields gets the lowest confidence, 0.6
C18_Witness ==
  /\ phase = "done"
  /\ input.title = <<"f","t">> /\ input.artist = <<"a","b">>
  /\ input.album = <<>>
  /\ output = [confidence |-> 60, matchFound |-> TRUE]

----------------------------------------------------------------------------
(* The two entry points of ingestion applied to blank and other inputs     *)

MaxBlankTokens == 1
BlankTokens == { <<" ">>, <<"\t">>, <<"\n">>, <<"x","1">> }

\* parsePlaylistData is called with a paste
InitBlankPaste ==
  /\ input \in {[type |-> "string", data |-> t] :
                  t \in TokenStrings(BlankTokens, MaxBlankTokens)}
  /\ output = <<>> /\ output2 = <<>> /\ phase = "start"
  /\ FetchIdle /\ MkIdle /\ AppIdle

\* fetchSpotifyPlaylist is called with an identifier; lines 203-204 read it
\* with getSpotifyId, which returns a string for every input, and go on
InitBlankIdentifier ==
  /\ input \in {[type |-> "identifier", data |-> t] :
                  t \in TokenStrings(BlankTokens, MaxBlankTokens)}
  /\ output = <<>> /\ output2 = <<>> /\ phase = "idle"
  /\ fpc = "start" /\ nextUrl = NULL /\ items = <<>> /\ name = <<>>
  /\ requests = <<>> /\ inflight = 0 /\ pageNexts = <<>> /\ pageItems = <<>>
  /\ lastOutcome = <<"none", 0>> /\ fresult = [kind |-> "none"]
  /\ tokenRequests = 0
  /\ MkIdle /\ AppIdle

InitBlank == InitBlankPaste \/ InitBlankIdentifier
NextBlank == ParsePlaylistData \/ NextFetch
SpecBlank == InitBlank /\ [][NextBlank]_vars

\* the input of the call is empty or only whitespace
BlankInput == trim(input.data) = <<>>

EmptyInputError == [kind |-> "error", message |-> MsgEmptyInput]

\* C19: a blank paste given to parsePlaylistData and a blank identifier
\* given to fetchSpotifyPlaylist each fail with the empty-input error, and
\* no request (for a token or for a page) is sent for a blank input
C19_BlankIsEmptyInput ==
  BlankInput =>
    /\ tokenRequests = 0 /\ requests = <<>>
    /\ phase = "done" => output = EmptyInputError
    /\ fpc = "done" => fresult = EmptyInputError

----------------------------------------------------------------------------
(* App: ingestion into a manifest, startMigration and reset                *)

MsgLoadFailed   == "Failed to load playlist tracks."
MsgNoneMatched  == "No tracks matched, cannot create empty playlist."
MsgCreateFailed == "Failed to create playlist in target library."
MsgAuthorize    ==
  "Failed to authorize with Apple Music. Ensure popups are allowed."

\* { ...obj, <updates> }
Spread_OnlyUpdates(obj, updates) == updates

Spread(obj, updates) ==
  [k \in DOMAIN obj \cup DOMAIN updates |->
     IF k \in DOMAIN updates THEN updates[k] ELSE obj[k]]

\* setManifest(prev => prev ? { ...prev, tracks: [...updatedTracks] } : null)
SetTracks(prev, tracks) ==
  IF prev = None THEN None ELSE Some(Spread(prev[1], [tracks |-> tracks]))

\* Math.round(((i + 1) / updatedTracks.length) * 100)
Progress(done, total) == (200 * done + total) \div (2 * total)

MaxAppTracks == 2

\* what fetchSpotifyPlaylist settles with: a manifest of the fetched tracks
\* or one of its errors
FetchedTracks ==
  {[title |-> <<"a">>, artist |-> <<"b">>, album |-> <<>>],
   [title |-> <<"c">>, artist |-> <<"d">>, album |-> <<"l">>]}
FetchOutcomes ==
  {[kind |-> "manifest", name |-> <<"n">>, tracks |-> WithIds(trackList)] :
     trackList \in SeqsUpTo(FetchedTracks, MaxAppTracks) \ {<<>>}}
    \cup {[kind |-> "error", message |-> MsgNotFound]}

\* what getAppleMusicPlaylist settles with, in either version
AppleOutcomes ==
  {getAppleMusicPlaylist([build |-> b, reply |-> r]) :
     b \in {BuildGuarded, BuildPlain},
     r \in {[kind |-> "resolve", value |-> PlaylistFull],
            [kind |-> "resolve", value |-> JObj([data |-> PlaylistFull])],
            [kind |-> "reject"]}}

\* the pastes of the text area
AppTokens ==
  { <<"a"," ","-"," ","b","\n">>, <<"c","|","d","\n">>, <<"x","\n">> }
PastedTexts == TokenStrings(AppTokens, MaxAppTracks) \cup {StrPlaylistLink}

\* what parsePlaylistData(pastedText) settles with
ParseOutcomes(pastedText) ==
  CHOOSE s \in
    {IF r.kind = "fetch" THEN FetchOutcomes ELSE {r} :
       r \in {parsePlaylistData([type |-> "string", data |-> pastedText])}} :
    TRUE

InitApp ==
  /\ appState = "IDLE" /\ manifest = None /\ error = NULL
  /\ transferProgress = 0 /\ direction = "spotify-to-apple"
  /\ spotifyToken \in {NULL, "token"} /\ isAppleAuthorized \in BOOLEAN
  /\ pending = None /\ data = None
  /\ spc = "idle" /\ updatedTracks = <<>> /\ trackIds = <<>> /\ loop_i = 0
  /\ loopTrack = None
  /\ AddIdle
  /\ PureIdle /\ FetchIdle /\ MkIdle

\* ---------------------------------------------------------------------------
\* addTracksToSpotifyPlaylist

\* Spotify limits adding 100 tracks at a time
ChunkSize == 100

\* the statuses of a response to an add-tracks request
AddStatuses == {201, 403}
IsOk(status) == status \in 200..299

\* a faulty variant of ChunksOf that drops a last chunk that is not full
ChunksOf_FullOnly(list) ==
  [c \in 1..(Len(list) \div ChunkSize) |->
     SubSeq(list, (c - 1) * ChunkSize + 1, c * ChunkSize)]

\* for (let i = 0; i < uris.length; i += 100) chunks.push(uris.slice(i, i + 100))
ChunksOf(list) ==
  [c \in 1..((Len(list) + ChunkSize - 1) \div ChunkSize) |->
     SubSeq(list, (c - 1) * ChunkSize + 1,
            IF c * ChunkSize < Len(list) THEN c * ChunkSize ELSE Len(list))]

\* the loop at chunk number k of cs: the request of the chunk is sent and
\* awaited, or the loop is over and the function returns
PostOrReturn(cs, k) ==
  IF k <= Len(cs)
    THEN /\ posted' = Append(IF k = 1 THEN <<>> ELSE posted, cs[k])
         /\ addpc' = "awaiting"
    ELSE /\ posted' = (IF k = 1 THEN <<>> ELSE posted)
         /\ addpc' = "returned"

\* the call, up to its first await or its return
AddCall(list) ==
  /\ uris' = list
  /\ chunks' = ChunksOf(list)
  /\ chunk_i' = 1
  /\ postStatuses' = <<>>
  /\ PostOrReturn(chunks', 1)

\* addTracksToSpotifyPlaylist(playlistId, uris, token) is called
AddStart ==
  /\ addpc = "called"
  /\ AddCall(uris)
  /\ UNCHANGED <<pureVars, fetchVars, mkVars, uiVars>>

\* AddResponse as it would be with 'if (!res.ok) throw': a status that is
\* not ok ends the call with an error
AddResponse_ChecksOk ==
  /\ addpc = "awaiting"
  /\ \E status \in AddStatuses :
       /\ postStatuses' = Append(postStatuses, status)
       /\ IF IsOk(status)
            THEN /\ chunk_i' = chunk_i + 1
                 /\ PostOrReturn(chunks, chunk_i + 1)
            ELSE /\ addpc' = "thrown"
                 /\ UNCHANGED <<chunk_i, posted>>
  /\ UNCHANGED <<uris, chunks, pureVars, fetchVars, mkVars, uiVars>>

\* await fetch(...) resolved: the response is dropped, whatever its status,
\* and the loop goes on with the next chunk
AddResponse ==
  /\ addpc = "awaiting"
  /\ \E status \in AddStatuses :
       postStatuses' = Append(postStatuses, status)
  /\ chunk_i' = chunk_i + 1
  /\ PostOrReturn(chunks, chunk_i + 1)
  /\ UNCHANGED <<uris, chunks, pureVars, fetchVars, mkVars, uiVars>>

\* await fetch(...) rejected: the function rejects, the other chunks are not sent
AddRejected ==
  /\ addpc = "awaiting"
  /\ addpc' = "thrown"
  /\ UNCHANGED <<uris, chunks, chunk_i, posted, postStatuses, pureVars,
                 fetchVars, mkVars, uiVars>>

migrationVars == <<spc, updatedTracks, trackIds, loop_i, loopTrack>>

\* handleTextSubmit up to its await
HandleTextSubmit ==
  /\ appState = "IDLE"
  /\ \E pastedText \in PastedTexts :
       /\ trim(pastedText) # <<>>
       /\ \E r \in ParseOutcomes(pastedText) :
            pending' = Some([handler |-> "text", result |-> r])
  /\ appState' = "PROCESSING"
  /\ error' = NULL
  /\ UNCHANGED <<manifest, transferProgress, direction, spotifyToken,
                 isAppleAuthorized, data, migrationVars, pureVars, fetchVars,
                 mkVars, addVars>>

\* handlePlaylistSelect up to its await; the lists are shown in the IDLE
\* view, to a connected Spotify user and to an authorized Apple Music user
HandlePlaylistSelect ==
  /\ appState = "IDLE"
  /\ \/ /\ spotifyToken # NULL
        /\ direction' = "spotify-to-apple"
        /\ \E r \in FetchOutcomes :
             pending' = Some([handler |-> "select", result |-> r])
     \/ /\ isAppleAuthorized
        /\ direction' = "apple-to-spotify"
        /\ \E r \in AppleOutcomes :
             pending' = Some([handler |-> "select",
                              result |-> IF r.kind = "return"
                                           THEN [kind |-> "manifest",
                                                 name |-> r.value.name,
                                                 tracks |-> r.value.tracks]
                                           ELSE [kind |-> "error",
                                                 message |-> r.message]])
  /\ appState' = "PROCESSING"
  /\ error' = NULL
  /\ UNCHANGED <<manifest, transferProgress, spotifyToken, isAppleAuthorized,
                 data, migrationVars, pureVars, fetchVars, mkVars,
                 addVars>>

\* the rest of the two handlers: setManifest(data), PREVIEW, or the catch
IngestionSettled ==
  /\ appState = "PROCESSING" /\ pending # None
  /\ IF pending[1].result.kind = "manifest"
       THEN /\ data' = Some([name |-> pending[1].result.name,
                             tracks |-> pending[1].result.tracks])
            /\ manifest' = data'
            /\ appState' = "PREVIEW"
            /\ UNCHANGED error
       ELSE /\ error' = IF pending[1].handler = "text"
                          THEN pending[1].result.message ELSE MsgLoadFailed
            /\ appState' = "IDLE"
            /\ UNCHANGED <<data, manifest>>
  /\ pending' = None
  /\ UNCHANGED <<transferProgress, direction, spotifyToken, isAppleAuthorized,
                 migrationVars, pureVars, fetchVars, mkVars,
                 addVars>>

\* handleAuthorize, from the IDLE view or the PREVIEW view
HandleAuthorize ==
  /\ appState \in {"IDLE", "PREVIEW"} /\ ~isAppleAuthorized
  /\ \/ isAppleAuthorized' = TRUE /\ UNCHANGED error
     \/ error' = MsgAuthorize /\ UNCHANGED isAppleAuthorized
  /\ UNCHANGED <<appState, manifest, transferProgress, direction,
                 spotifyToken, pending, data, migrationVars, pureVars,
                 fetchVars, mkVars,
                 addVars>>

\* the Disconnect button of the IDLE view
Disconnect ==
  /\ appState = "IDLE" /\ spotifyToken # NULL
  /\ spotifyToken' = NULL
  /\ UNCHANGED <<appState, manifest, error, transferProgress, direction,
                 isAppleAuthorized, pending, data, migrationVars, pureVars,
                 fetchVars, mkVars,
                 addVars>>

\* reset, from the PREVIEW view or the COMPLETED view; data, the result of
\* the ingestion that made the manifest, is kept as long as the manifest
Reset ==
  /\ appState \in {"PREVIEW", "COMPLETED"}
  /\ appState' = "IDLE"
  /\ manifest' = None
  /\ error' = NULL
  /\ transferProgress' = 0
  /\ data' = None
  /\ UNCHANGED <<direction, spotifyToken, isAppleAuthorized, pending,
                 migrationVars, pureVars, fetchVars, mkVars,
                 addVars>>

\* a faulty variant of AfterSearch that leaves a track without a match as it is
AfterSearch_MissKeepsStatus(matchedId, tracks) ==
  /\ updatedTracks' =
       IF matchedId # NULL
         THEN [tracks EXCEPT ![loop_i + 1] =
                 Spread(loopTrack'[1], [status |-> "matched", confidence |-> 1])]
         ELSE tracks
  /\ trackIds' = IF matchedId # NULL THEN Append(trackIds, matchedId)
                 ELSE trackIds
  /\ manifest' = SetTracks(manifest, updatedTracks')
  /\ transferProgress' = Progress(loop_i + 1, Len(tracks))
  /\ spc' = "sleep"

\* the loop body after the search: the status of the track, setManifest and
\* setTransferProgress, up to the await of the timeout
AfterSearch(matchedId, tracks) ==
  /\ updatedTracks' =
       [tracks EXCEPT ![loop_i + 1] =
          IF matchedId # NULL
            THEN Spread(loopTrack'[1], [status |-> "matched", confidence |-> 1])
            ELSE Spread(loopTrack'[1], [status |-> "failed"])]
  /\ trackIds' = IF matchedId # NULL THEN Append(trackIds, matchedId)
                 ELSE trackIds
  /\ manifest' = SetTracks(manifest, updatedTracks')
  /\ transferProgress' = Progress(loop_i + 1, Len(tracks))
  /\ spc' = "sleep"

\* startMigration returned: its locals are gone
MigrationReturns ==
  /\ spc' = "idle" /\ updatedTracks' = <<>> /\ trackIds' = <<>>
  /\ loop_i' = 0 /\ loopTrack' = None

\* startMigration up to the await of its imports
StartMigration ==
  /\ appState = "PREVIEW" /\ isAppleAuthorized /\ spc = "idle"
  /\ manifest # None
  /\ appState' = "SYNCING"
  /\ transferProgress' = 0
  /\ updatedTracks' = manifest[1].tracks
  /\ trackIds' = <<>>
  /\ spc' = "import"
  /\ UNCHANGED <<manifest, error, direction, spotifyToken, isAppleAuthorized,
                 pending, data, loop_i, loopTrack, pureVars, fetchVars,
                 mkVars, addVars>>

\* the imports resolved: for (let i = 0; ...
ImportsLoaded ==
  /\ spc = "import"
  /\ loop_i' = 0
  /\ spc' = "loop"
  /\ UNCHANGED <<appState, manifest, error, transferProgress, direction,
                 spotifyToken, isAppleAuthorized, pending, data,
                 updatedTracks, trackIds, loopTrack, pureVars, fetchVars,
                 mkVars, addVars>>

\* one pass of the loop up to the await of the search; without a Spotify
\* token the other direction has no await and goes on to the timeout
LoopSearch ==
  /\ spc = "loop" /\ loop_i < Len(updatedTracks)
  /\ loopTrack' = Some(updatedTracks[loop_i + 1])
  /\ IF direction = "spotify-to-apple" \/ spotifyToken # NULL
       THEN /\ updatedTracks' =
                 [updatedTracks EXCEPT ![loop_i + 1] =
                    Spread(loopTrack'[1], [status |-> "matching"])]
            /\ manifest' = SetTracks(manifest, updatedTracks')
            /\ spc' = "search"
            /\ UNCHANGED <<trackIds, transferProgress>>
       ELSE AfterSearch(NULL, updatedTracks)
  /\ UNCHANGED <<appState, error, direction, spotifyToken, isAppleAuthorized,
                 pending, data, loop_i, pureVars, fetchVars, mkVars,
                 addVars>>

\* searchAndMatchTrack or searchSpotifyTrack settled: an identifier or null
SearchSettled ==
  /\ spc = "search"
  /\ UNCHANGED loopTrack
  /\ \E matchedId \in {NULL, "id"} : AfterSearch(matchedId, updatedTracks)
  /\ UNCHANGED <<appState, error, direction, spotifyToken, isAppleAuthorized,
                 pending, data, loop_i, pureVars, fetchVars, mkVars,
                 addVars>>

\* the timeout of 50 ms passed: i++
NextTrack ==
  /\ spc = "sleep"
  /\ loop_i' = loop_i + 1
  /\ spc' = "loop"
  /\ UNCHANGED <<appState, manifest, error, transferProgress, direction,
                 spotifyToken, isAppleAuthorized, pending, data,
                 updatedTracks, trackIds, loopTrack, pureVars, fetchVars,
                 mkVars, addVars>>

\* a faulty variant of LoopDone that completes a migration without a match
LoopDone_CompletesEmpty ==
  /\ spc = "loop" /\ loop_i >= Len(updatedTracks)
  /\ IF trackIds # <<>>
       THEN IF direction = "spotify-to-apple" \/ spotifyToken # NULL
              THEN /\ spc' = "create"
                   /\ UNCHANGED <<appState, error, updatedTracks, trackIds,
                                  loop_i, loopTrack>>
              ELSE /\ appState' = "COMPLETED"
                   /\ MigrationReturns
                   /\ UNCHANGED error
       ELSE /\ UNCHANGED error
            /\ appState' = "COMPLETED"
            /\ MigrationReturns
  /\ UNCHANGED <<manifest, transferProgress, direction, spotifyToken,
                 isAppleAuthorized, pending, data, pureVars, fetchVars,
                 mkVars, addVars>>

\* the loop is over: create the playlist, or report that nothing matched
LoopDone ==
  /\ spc = "loop" /\ loop_i >= Len(updatedTracks)
  /\ IF trackIds # <<>>
       THEN IF direction = "spotify-to-apple" \/ spotifyToken # NULL
              THEN /\ spc' = "create"
                   /\ UNCHANGED <<appState, error, updatedTracks, trackIds,
                                  loop_i, loopTrack>>
              ELSE /\ appState' = "COMPLETED"
                   /\ MigrationReturns
                   /\ UNCHANGED error
       ELSE /\ error' = MsgNoneMatched
            /\ appState' = "PREVIEW"
            /\ MigrationReturns
  /\ UNCHANGED <<manifest, transferProgress, direction, spotifyToken,
                 isAppleAuthorized, pending, data, pureVars, fetchVars,
                 mkVars, addVars>>

\* the catch of startMigration
CreateFailed ==
  /\ appState' = "PREVIEW"
  /\ error' = MsgCreateFailed
  /\ MigrationReturns

\* createPlaylist settled
CreateSettled ==
  /\ spc = "create" /\ direction = "spotify-to-apple"
  /\ \/ appState' = "COMPLETED" /\ UNCHANGED error /\ MigrationReturns
     \/ CreateFailed
  /\ UNCHANGED <<manifest, transferProgress, direction, spotifyToken,
                 isAppleAuthorized, pending, data, pureVars, fetchVars,
                 mkVars, addVars>>

\* getSpotifyProfile settled: createSpotifyPlaylist is called, or the catch
ProfileSettled ==
  /\ spc = "create" /\ direction = "apple-to-spotify"
  /\ \/ /\ spc' = "playlist"
        /\ UNCHANGED <<appState, error, updatedTracks, trackIds, loop_i,
                       loopTrack>>
     \/ CreateFailed
  /\ UNCHANGED <<manifest, transferProgress, direction, spotifyToken,
                 isAppleAuthorized, pending, data, pureVars, fetchVars,
                 mkVars, addVars>>

\* createSpotifyPlaylist settled: addTracksToSpotifyPlaylist is called with
\* the matched identifiers, or the catch
PlaylistSettled ==
  /\ spc = "playlist"
  /\ \/ /\ spc' = "adding"
        /\ AddCall(trackIds)
        /\ UNCHANGED <<appState, error, updatedTracks, trackIds, loop_i,
                       loopTrack>>
     \/ CreateFailed /\ UNCHANGED addVars
  /\ UNCHANGED <<manifest, transferProgress, direction, spotifyToken,
                 isAppleAuthorized, pending, data, pureVars, fetchVars,
                 mkVars>>

\* addTracksToSpotifyPlaylist settled: COMPLETED, or the catch; the locals of
\* the call are gone, the requests it sent and their answers stay on record
AddSettled ==
  /\ spc = "adding" /\ addpc \in {"returned", "thrown"}
  /\ IF addpc = "returned"
       THEN appState' = "COMPLETED" /\ UNCHANGED error /\ MigrationReturns
       ELSE CreateFailed
  /\ addpc' = "idle" /\ uris' = <<>> /\ chunks' = <<>> /\ chunk_i' = 0
  /\ UNCHANGED <<manifest, transferProgress, direction, spotifyToken,
                 isAppleAuthorized, pending, data, pureVars, fetchVars,
                 mkVars, posted, postStatuses>>

NextApp ==
  \/ HandleTextSubmit \/ HandlePlaylistSelect \/ IngestionSettled
  \/ HandleAuthorize \/ Disconnect \/ Reset
  \/ StartMigration \/ ImportsLoaded \/ LoopSearch \/ SearchSettled
  \/ NextTrack \/ LoopDone \/ CreateSettled \/ ProfileSettled
  \/ PlaylistSettled \/ AddResponse \/ AddRejected \/ AddSettled
SpecApp == InitApp /\ [][NextApp]_vars

\* a property of an object, or None when the object does not have it
Field(obj, k) == IF k \in DOMAIN obj THEN Some(obj[k]) ELSE None

\* the properties of a track the matching stage has to leave alone
TrackIdentity(t) ==
  [k \in {"id", "title", "artist", "album"} |-> Field(t, k)]

\* the fields of the tracks: a list of the same length and order
TrackIdentities(m) ==
  IF Field(m, "tracks") = None THEN None
  ELSE Some([k \in 1..Len(m.tracks) |-> TrackIdentity(m.tracks[k])])

\* C20: in every state from PREVIEW through SYNCING to COMPLETED the
\* manifest has the name that ingestion produced and the same tracks in the
\* same order, each with the id, title, artist and album that ingestion
\* produced: startMigration changes only status and confidence
C20_MigrationKeepsIdentity ==
  appState \in {"PREVIEW", "SYNCING", "COMPLETED"} =>
    /\ manifest # None /\ data # None
    /\ Field(manifest[1], "name") = Some(data[1].name)
    /\ TrackIdentities(manifest[1]) = TrackIdentities(data[1])

\* a migration of two tracks ended with one matched and one not found
C20_Witness ==
  /\ appState = "COMPLETED" /\ manifest # None
  /\ direction = "spotify-to-apple"
  /\ Len(manifest[1].tracks) = 2
  /\ manifest[1].tracks[1].status = "failed"
  /\ manifest[1].tracks[2].status = "matched"
  /\ Field(manifest[1].tracks[2], "confidence") = Some(1)
  /\ manifest[1].tracks[2].id = 1
  /\ manifest # data

----------------------------------------------------------------------------
(* The cached instance over the calls of initializeMusicKit                *)

\* caller c begins a call in this step
CallBegins(c) == calls'[c] = calls[c] + 1

\* the call of caller c ends with an error in this step
CallFails(c) == mkpc[c] # "idle" /\ mkpc'[c] = "idle" /\ mkResult'[c][1] = "error"

\* C21: the cached instance is initialized lazily and never invalidated:
\* once an initialization has succeeded the cache keeps that instance (no
\* step clears or replaces it), every call that begins afterwards returns
\* the cached instance without a token request, a failed initialization
\* does not touch the cache, and a call that begins with an empty cache
\* and the script loaded fetches a token
C21_CachedOnceForever ==
  [][/\ musicKitInstance # 0 => musicKitInstance' = musicKitInstance
     /\ \A c \in Callers :
          /\ (CallBegins(c) /\ musicKitInstance # 0)
               => /\ mkResult'[c] = <<"ok", musicKitInstance>>
                  /\ tokenFetches' = tokenFetches
          /\ CallFails(c) => musicKitInstance' = musicKitInstance
          /\ (CallBegins(c) /\ musicKitInstance = 0 /\ scriptLoaded)
               => tokenFetches' = tokenFetches + 1]_vars

----------------------------------------------------------------------------
(* The fallback re-split of splitCandidateLines                            *)

\* the parts of a lone line between semicolons, and between bullets
SemicolonParts(line) == RunsOutside(line, {";"})
BulletParts(line) == RunsOutside(line, {Bullet})

\* C22: the fallback re-split is applied only when exactly one non-empty
\* line remains: the result is the semicolon split if it has more than one
\* non-empty part (also when the bullet split has more than one), otherwise
\* the bullet split if it has more than one part, otherwise the single
\* line; two or more non-empty lines are returned as they are
C22_FallbackOnlyForOneLine ==
  phase = "done" =>
    LET nl == NewlineDelimited(input)
    IN  /\ Len(nl) # 1 => output = nl
        /\ Len(nl) = 1 =>
             /\ Len(SemicolonParts(nl[1])) > 1
                  => output = SemicolonParts(nl[1])
             /\ (Len(SemicolonParts(nl[1])) <= 1
                 /\ Len(BulletParts(nl[1])) > 1)
                  => output = BulletParts(nl[1])
             /\ (Len(SemicolonParts(nl[1])) <= 1
                 /\ Len(BulletParts(nl[1])) <= 1)
                  => output = nl

\* a lone line with a semicolon and a bullet was split at the semicolon
C22_Witness ==
  /\ phase = "done" /\ Len(NewlineDelimited(input)) = 1
  /\ Len(SemicolonParts(NewlineDelimited(input)[1])) = 2
  /\ Len(BulletParts(NewlineDelimited(input)[1])) = 2
  /\ output = SemicolonParts(NewlineDelimited(input)[1])
  /\ output # BulletParts(NewlineDelimited(input)[1])

\* ---------------------------------------------------------------------------
\* C23: both page shapes, and the name of the manifest

\* a successful response has just been taken in
ResponseTaken == Len(pageNexts') = Len(pageNexts) + 1

\* the call has just returned a manifest
ManifestReturned == fpc # "done" /\ fpc' = "done" /\ fresult'.kind = "manifest"

Answered ==
  \/ TokenReceived \/ TokenFailed
  \/ TransportFailure \/ StatusFailure \/ BodyFailure
  \/ EnvelopeResponse \/ PageResponse
\* the function is not waiting: it runs on to its next await or to its end
RunsOn ==
  \/ StartWithUserToken \/ StartTokenRequest \/ IssueRequest
  \/ FinishManifest \/ FinishNoTracks

\* Every request is answered in the end, and the function runs whenever it
\* is not waiting for an answer.
SpecFetchFair == SpecFetch /\ WF_vars(Answered) /\ WF_vars(RunsOn)

\* page k was received and has no cursor: its next is absent or null
LastPage(k) == k \in 1..Len(pageNexts) /\ pageNexts[k] \in {ABSENT, NULL}
LastPageSeen == \E k \in 1..MaxRequests : LastPage(k)

\* C24: when every request is answered, once a page without a cursor has
\* been received no further request is issued, and the call ends, with a
\* manifest or with an error.
C24_TerminatesAfterLastPage ==
  /\ [](\A k \in 1..MaxRequests : LastPage(k) => Len(requests) = k)
  /\ (LastPageSeen ~> (fpc = "done" /\ fresult.kind \in {"manifest", "error"}))

\* the second page had no next property and the call ended with the error of
\* an empty track list
C24_Witness ==
  /\ fpc = "done" /\ fresult.kind = "error"
  /\ Len(requests) = 2 /\ Len(pageNexts) = 2
  /\ pageNexts[1] \in CursorUrls /\ pageNexts[2] = ABSENT
  /\ inflight = 0

\* ---------------------------------------------------------------------------
\* C25: a track with a title and an artist is never a miss

\* the confidence of the input before the clamp
InputRawConfidence ==
  RawConfidence(trim(input.title), trim(input.artist), trim(input.album))

\* C25: for a track whose trimmed title and artist are both non-empty the
\* confidence before the clamp lies between 0.60 and 0.90, the clamp leaves it
\* unchanged and matchFound is true; matchFound is false exactly for a track
\* whose trimmed title or artist is empty.
C25_NeverAMiss ==
  phase = "done" =>
    /\ HasTitleAndArtist =>
         /\ InputRawConfidence \in 60..90
         /\ output.confidence = InputRawConfidence
         /\ output.matchFound
    /\ ~output.matchFound <=> ~HasTitleAndArtist

\* a long title, a long artist and an album without a hint give the highest
\* confidence, 0.9, below the upper end of the clamp
C25_Witness ==
  /\ phase = "done"
  /\ Len(trim(input.title)) >= 4 /\ Len(trim(input.artist)) >= 3
  /\ trim(input.album) # <<>>
  /\ output = [confidence |-> 90, matchFound |-> TRUE]

\* ---------------------------------------------------------------------------
\* C26: the status of the tracks during one run of startMigration

\* the places of the tracks that have the status
WithStatus(tracks, status) ==
  {k \in 1..Len(tracks) : tracks[k].status = status}

\* startMigration is running in both states of the step
RunGoesOn == spc # "idle" /\ spc' # "idle" /\ spc # "import"

\* the search of this pass is skipped: the other direction without a token
SearchSkipped == direction = "apple-to-spotify" /\ spotifyToken = NULL

\* the loop is over and startMigration has not returned
LoopOver == spc = "create" \/ (spc = "loop" /\ loop_i >= Len(updatedTracks))

\* C26: during a run the index only moves on by one, and only after the
\* track at the index is matched or failed; a step changes the status of no
\* track but the one at the index, to matching when the pass begins and from
\* matching to matched or failed when the search settles (a pass whose search
\* is skipped has no await between the two assignments and ends failed); at
\* most one track is matching, in the list of the run and in the manifest; and
\* once the loop is over every track is matched or failed.
C26_StatusProgression ==
  [][/\ RunGoesOn =>
          /\ loop_i' \in {loop_i, loop_i + 1}
          /\ loop_i' = loop_i + 1 =>
               updatedTracks[loop_i + 1].status \in {"matched", "failed"}
          /\ Len(updatedTracks') = Len(updatedTracks)
          /\ \A k \in 1..Len(updatedTracks) :
               updatedTracks'[k].status # updatedTracks[k].status =>
                 /\ k = loop_i + 1
                 /\ \/ /\ spc = "loop" /\ ~SearchSkipped
                          /\ updatedTracks'[k].status = "matching"
                    \/ /\ spc = "search"
                          /\ updatedTracks[k].status = "matching"
                          /\ updatedTracks'[k].status \in {"matched", "failed"}
                    \/ /\ spc = "loop" /\ SearchSkipped
                          /\ updatedTracks'[k].status = "failed"
     /\ Cardinality(WithStatus(updatedTracks', "matching")) <= 1
     /\ manifest' # None =>
          Cardinality(WithStatus(manifest'[1].tracks, "matching")) <= 1
     /\ LoopOver' =>
          /\ WithStatus(updatedTracks', "pending") = {}
          /\ WithStatus(updatedTracks', "matching") = {}
          /\ manifest'[1].tracks = updatedTracks']_vars

\* the second track is being matched after the first one failed
C26_Witness ==
  /\ spc = "search" /\ loop_i = 1
  /\ Len(updatedTracks) = 2
  /\ updatedTracks[1].status = "failed"
  /\ updatedTracks[2].status = "matching"
  /\ manifest[1].tracks = updatedTracks

\* ---------------------------------------------------------------------------
\* C27: how a migration ends

\* startMigration returns in this step
RunEnds == spc # "idle" /\ spc' = "idle"

\* the call that creates the target playlist has thrown
CreationThrew == spc = "adding" /\ addpc = "thrown"

\* C27: the state becomes COMPLETED only in a step from SYNCING that ends a
\* run with at least one matched track and a creation that returned; a run
\* that ends otherwise, because no track matched or the creation threw, goes
\* back from SYNCING to PREVIEW with its error message and leaves the manifest
\* as it is.
C27_CompletedOnlyAfterCreation ==
  [][/\ (appState' = "COMPLETED" /\ appState # "COMPLETED") =>
          /\ appState = "SYNCING" /\ RunEnds
          /\ trackIds # <<>>
          /\ ~CreationThrew
          /\ spc \in {"create", "adding"}
     /\ RunEnds =>
          /\ appState = "SYNCING"
          /\ \/ appState' = "COMPLETED"
             \/ /\ appState' = "PREVIEW"
                /\ error' \in {MsgNoneMatched, MsgCreateFailed}
                /\ manifest' = manifest /\ manifest # None
          /\ trackIds = <<>> =>
               appState' = "PREVIEW" /\ error' = MsgNoneMatched
          /\ CreationThrew =>
               appState' = "PREVIEW" /\ error' = MsgCreateFailed]_vars

\* the creation failed after the second of two tracks was matched: PREVIEW,
\* the message of the catch, the manifest with its statuses
C27_Witness ==
  /\ appState = "PREVIEW" /\ error = MsgCreateFailed /\ spc = "idle"
  /\ manifest # None
  /\ Len(manifest[1].tracks) = 2
  /\ manifest[1].tracks[1].status = "failed"
  /\ manifest[1].tracks[2].status = "matched"

\* ---------------------------------------------------------------------------
\* C28: a migration to Spotify completes only when every chunk was added

\* C28: in the apple-to-spotify direction the state is COMPLETED only if
\* every add-tracks request of the migration was answered with a success
\* status; an answer that is not a success sends the flow back to PREVIEW.
C28_CompletedOnlyIfAllAdded ==
  (appState = "COMPLETED" /\ direction = "apple-to-spotify") =>
    \A k \in 1..Len(postStatuses) : IsOk(postStatuses[k])

\* ---------------------------------------------------------------------------
\* C29: the fragment with the higher title score

\* fragment a has the strictly higher title score of a and b
HigherTitle(a, b) == scoreTitle(a) > scoreTitle(b)
\* fragment a has the strictly higher artist score of a and b
HigherArtist(a, b) == scoreArtist(a) > scoreArtist(b)

\* C29 as stated: the fragment with the strictly higher title score is the
\* title.
C29_HigherTitleScoreIsTitle ==
  phase = "done" =>
    /\ HigherTitle(input[1], input[2]) => output.title = input[1]
    /\ HigherTitle(input[2], input[1]) => output.title = input[2]

\* C29, amended: the fragment with the strictly higher title score is the
\* title unless it also has the strictly higher artist score; then the artist
\* scores decide and it is the artist.
C29_HigherTitleUnlessHigherArtist ==
  phase = "done" =>
    \E tl \in {scoreTitle(input[1])}, tr \in {scoreTitle(input[2])},
       al \in {scoreArtist(input[1])}, ar \in {scoreArtist(input[2])} :
      /\ (tl > tr /\ ~(al > ar))
           => output = [title |-> input[1], artist |-> input[2]]
      /\ (tr > tl /\ ~(ar > al))
           => output = [title |-> input[2], artist |-> input[1]]
      /\ (tl > tr /\ al > ar)
           => output = [title |-> input[2], artist |-> input[1]]
      /\ (tr > tl /\ ar > al)
           => output = [title |-> input[1], artist |-> input[2]]

\* the left fragment has the higher title score and the higher artist score
\* and is returned as the artist
C29_Witness ==
  /\ phase = "done"
  /\ HigherTitle(input[1], input[2]) /\ HigherArtist(input[1], input[2])
  /\ output.artist = input[1] /\ output.title = input[2]
  /\ input[1] # input[2]

\* ---------------------------------------------------------------------------
\* addTracksToSpotifyPlaylist applied to lists of identifiers

MaxUris == 201

InitAdd ==
  /\ addpc = "called"
  /\ uris \in {[k \in 1..n |-> k] : n \in 0..MaxUris}
  /\ chunks = <<>> /\ chunk_i = 0 /\ posted = <<>> /\ postStatuses = <<>>
  /\ PureIdle /\ FetchIdle /\ MkIdle /\ UiIdle

NextAdd == AddStart \/ AddResponse \/ AddRejected
SpecAdd == InitAdd /\ [][NextAdd]_vars

\* the identifiers of the requests sent so far, in the order they were sent
RECURSIVE SentUris(_)
SentUris(bodies) ==
  IF bodies = <<>> THEN <<>>
  ELSE SentUris(SubSeq(bodies, 1, Len(bodies) - 1)) \o bodies[Len(bodies)]

\* C30: at every point of a call the identifiers sent so far are the first
\* identifiers of the input, each once and in the order of the input; every
\* request carries between 1 and 100 of them; a request is sent only when all
\* earlier ones have been answered; a call that returns has sent the whole
\* input; and an empty input sends nothing.
C30_ChunkedInOrder ==
  addpc # "called" =>
    /\ \E sent \in {SentUris(posted)} :
         /\ Len(sent) <= Len(uris)
         /\ sent = SubSeq(uris, 1, Len(sent))
         /\ addpc = "returned" => sent = uris
    /\ \A k \in 1..Len(posted) : Len(posted[k]) \in 1..ChunkSize
    /\ Len(posted) - Len(postStatuses) =
         (IF addpc \in {"awaiting", "thrown"} THEN 1 ELSE 0)
    /\ uris = <<>> => posted = <<>> /\ addpc = "returned"

\* 201 identifiers went out in three requests, the last with one identifier
C30_Witness ==
  /\ addpc = "returned"
  /\ Len(uris) = 2 * ChunkSize + 1
  /\ Len(posted) = 3
  /\ Len(posted[1]) = ChunkSize /\ Len(posted[2]) = ChunkSize
  /\ posted[3] = <<2 * ChunkSize + 1>>

====
